---- MODULE Spec2Model ----
(***************************************************************************)
(* Verification model of the furniture scrapers: the colemanfurniture      *)
(* Scrapy spider (ProductFetcher), its Ashley runner script, and the cymax *)
(* sitemap classifier.  Every subsystem has its own variables and its own  *)
(* specification; the variables of the other subsystems are parked.        *)
(* Strings are sequences of one-character strings, so that parsing,        *)
(* stripping and searching are computed and not assumed.                   *)
(***************************************************************************)
EXTENDS Integers, Sequences, FiniteSets

VARIABLES
    parts,      \* C1: the components the URL under test is composed of
    url,        \* C1: the URL string handed to _is_plp_url
    is_plp,     \* C1: the classifier's result, "unset" before the call
    reqs,       \* C3: per product request chain, the request now in flight
    issued,     \* C3: per chain, how many requests were issued for its URL
    lastErr,    \* C3: the last handle_product_error call and what it returned
    slice_cfg,  \* C5: the list, total_chunks and chunk_size of the chunked run
    slices,     \* C5: per chunk_id, the slice its spider took
    site,       \* C4: the sitemaps of the website and the chunked run's settings
    spiders,    \* C4: per chunk_id, the sitemap-mode spider's progress and requests
    args,       \* C6: the runner's URL list, --product-chunks and --chunk-size
    chunks,     \* C6: the chunks the runner hands to its worker processes
    workers,    \* C7: per worker process, whether it started and what it requested
    pages,      \* C8: per page of the website, what its hypernova App script lists
    to_fetch,   \* C8: the product requests scheduled and not yet answered
    gens,       \* C8: the extract_bundle_products generators, one per parsed page
    _processed_bundle_urls,  \* C8: the spider's set of bundle URLs already requested
    bundle_requests,         \* C8: every bundle request issued, in order
    dim_page,   \* C9: the hypernova App script of the page given to extract_dimensions
    dim_out,    \* C9: what extract_dimensions returned, and what it looked at
    cy_parts,   \* C10: what the URL given to cymax is_product_url is made of
    cy_url,     \* C10: that URL (or None)
    cy_result,  \* C10: what is_product_url returned, "unset" before the call
    page_response,    \* C2: the response given to parse_product_page_with_check
    page_spider,      \* C2: the spider's chunk_mode, chunk_id and total_chunks
    json_ld_cache,    \* C2: the spider's cache of the Product JSON-LD quick check
    parse_gen,        \* C2: where the generator of the current call stands
    yielded_items,    \* C2: the items yielded so far
    yielded_requests, \* C2: the bundle requests yielded so far
    cp_page,  \* C11: the page and URL given to cymax parse_product
    cp_out, \* C11: the row parse_product returned, empty before the call
    fetch_cfg,  \* C12: the retries argument of Fetcher.fetch and the configured min_html_size
    fetch_loop,  \* C12: where the call stands and the number of the current attempt
    fetch_events,  \* C12: the attempts and the backoff sleeps of the call, in order
    fetch_ret, \* C12: what the call returned
    job_cfg,  \* C13: the sitemap list, the --max-sitemaps of the jobs and their number
    job_slices,  \* C13: per job, the sitemap_chunk its spider took
    chunk_call, \* C13: a call of get_sitemap_chunks and what it returned
    sm_in,  \* C14: the spider and the kinds of the entries of the sitemap it parses
    sm_out, \* C14: the requests parse_product_sitemap yielded
    am_argv,  \* C15: sys.argv[1:] of a run of run_ashley_scraper.py
    am_run, \* C15: how main() ended, or the mode it went into
    dd_in,  \* C16: the url lists of the input files of normalize_and_deduplicate
    dd_out, \* C16: the output file it writes
    pool_cfg,  \* C19: what each URL of all_urls leads to, and MAX_WORKERS
    pool_tasks,  \* C19: per submitted task, where process_product is and what it returned
    csv_rows,  \* C19: the data rows appended to OUTPUT_CSV, by task
    total_perfect,  \* C20: the global total_perfect
    processed_urls,  \* C19: the global processed_urls
    tally, \* C19: successful and failed of main()
    csv_lock,  \* C21: the task whose thread holds csv_lock, 0 when it is free
    csv_file,  \* C21: OUTPUT_CSV: whether it exists and its lines
    csv_main,  \* C21: where main() is, and MAX_WORKERS
    csv_tasks, \* C21: per submitted task, where its thread is
    ash_spider,  \* C22: ashley_urls and url_list of the AshleyURLSpider
    ash_pages,  \* C22: the number of page responses handled
    ash_last  \* C22: the last response, url_list before it and the page_urls found in it

varsUrl == <<parts, url, is_plp>>

varsRetry == <<reqs, issued, lastErr>>

varsSlice == <<slice_cfg, slices>>

varsSitemap == <<site, spiders>>

varsRunner == <<args, chunks, workers>>

varsBundle == <<pages, to_fetch, gens, bundle_requests>>

varsDim == <<dim_page, dim_out>>

varsCymax == <<cy_parts, cy_url, cy_result>>

varsPage ==
    <<page_response, page_spider, json_ld_cache, parse_gen, yielded_items,
      yielded_requests>>

varsParser == <<cp_page, cp_out>>

varsFetch == <<fetch_cfg, fetch_loop, fetch_events, fetch_ret>>

varsJobs == <<job_cfg, job_slices, chunk_call>>

varsSmparse == <<sm_in, sm_out>>

varsAshmain == <<am_argv, am_run>>

varsDedup == <<dd_in, dd_out>>

varsPool == <<pool_cfg, pool_tasks, csv_rows, total_perfect, processed_urls, tally>>

varsCsv == <<csv_lock, csv_file, csv_main, csv_tasks>>



varsAshurls == <<ash_spider, ash_pages, ash_last>>

vars ==
    <<varsUrl, varsRetry, varsSlice, varsSitemap, varsRunner, varsBundle,
      _processed_bundle_urls, varsDim, varsCymax, varsPage,
      varsParser,
      varsFetch,
      varsJobs,
      varsSmparse,
      varsAshmain,
      varsDedup,
      varsPool,
      varsCsv,
      varsAshurls>>

(***************************************************************************)
(* Each specification runs one subsystem; the others stay parked.          *)
(***************************************************************************)
ParkedUrl == parts = <<>> /\ url = <<>> /\ is_plp = "unset"

ParkedRetry == reqs = <<>> /\ issued = <<>> /\ lastErr = <<>>

ParkedSlice == slice_cfg = <<>> /\ slices = <<>>

ParkedSitemap == site = <<>> /\ spiders = <<>>

ParkedRunner == args = <<>> /\ chunks = <<>> /\ workers = <<>>

ParkedBundle == pages = <<>> /\ to_fetch = {} /\ gens = <<>> /\ bundle_requests = <<>>

ParkedPage ==
    /\ page_response = <<>> /\ page_spider = <<>> /\ json_ld_cache = {}
    /\ parse_gen = <<>> /\ yielded_items = <<>> /\ yielded_requests = <<>>

ParkedDim == dim_page = <<>> /\ dim_out = <<>>

ParkedCymax == cy_parts = <<>> /\ cy_url = <<>> /\ cy_result = "unset"

ParkedParser == cp_page = <<>> /\ cp_out = <<>>

ParkedFetch == fetch_cfg = <<>> /\ fetch_loop = <<>> /\ fetch_events = <<>> /\ fetch_ret = <<>>

ParkedJobs == job_cfg = <<>> /\ job_slices = <<>> /\ chunk_call = <<>>

ParkedSmparse == sm_in = <<>> /\ sm_out = <<>>

ParkedAshmain == am_argv = <<>> /\ am_run = ""

ParkedDedup == dd_in = <<>> /\ dd_out = <<>>

ParkedPool == pool_cfg = <<>> /\ pool_tasks = <<>> /\ csv_rows = <<>> /\ total_perfect = 0 /\ processed_urls = 0 /\ tally = <<>>

ParkedCsv == csv_lock = 0 /\ csv_file = <<>> /\ csv_main = <<>> /\ csv_tasks = <<>>



ParkedAshurls == ash_spider = <<>> /\ ash_pages = 0 /\ ash_last = <<>>

Parked(sub) ==
    /\ IF sub = "url" THEN TRUE ELSE ParkedUrl
    /\ IF sub = "retry" THEN TRUE ELSE ParkedRetry
    /\ IF sub = "slice" THEN TRUE ELSE ParkedSlice
    /\ IF sub = "sitemap" THEN TRUE ELSE ParkedSitemap
    /\ IF sub = "runner" THEN TRUE ELSE ParkedRunner
    /\ IF sub = "bundle" THEN TRUE ELSE ParkedBundle
    /\ IF sub = "dim" THEN TRUE ELSE ParkedDim
    /\ IF sub = "cymax" THEN TRUE ELSE ParkedCymax
    /\ IF sub = "page" THEN TRUE ELSE ParkedPage
    /\ IF sub \in {"bundle", "page"} THEN TRUE ELSE _processed_bundle_urls = {}
    /\ IF sub = "parser" THEN TRUE ELSE ParkedParser
    /\ IF sub = "fetch" THEN TRUE ELSE ParkedFetch
    /\ IF sub = "jobs" THEN TRUE ELSE ParkedJobs
    /\ IF sub = "smparse" THEN TRUE ELSE ParkedSmparse
    /\ IF sub = "ashmain" THEN TRUE ELSE ParkedAshmain
    /\ IF sub = "dedup" THEN TRUE ELSE ParkedDedup
    /\ IF sub = "pool" THEN TRUE ELSE ParkedPool
    /\ IF sub = "csv" THEN TRUE ELSE ParkedCsv
    /\ IF sub = "ashurls" THEN TRUE ELSE ParkedAshurls

Frame(sub) ==
    /\ IF sub = "url" THEN TRUE ELSE UNCHANGED varsUrl
    /\ IF sub = "retry" THEN TRUE ELSE UNCHANGED varsRetry
    /\ IF sub = "slice" THEN TRUE ELSE UNCHANGED varsSlice
    /\ IF sub = "sitemap" THEN TRUE ELSE UNCHANGED varsSitemap
    /\ IF sub = "runner" THEN TRUE ELSE UNCHANGED varsRunner
    /\ IF sub = "bundle" THEN TRUE ELSE UNCHANGED varsBundle
    /\ IF sub = "dim" THEN TRUE ELSE UNCHANGED varsDim
    /\ IF sub = "cymax" THEN TRUE ELSE UNCHANGED varsCymax
    /\ IF sub = "page" THEN TRUE ELSE UNCHANGED varsPage
    /\ IF sub \in {"bundle", "page"} THEN TRUE ELSE UNCHANGED _processed_bundle_urls
    /\ IF sub = "parser" THEN TRUE ELSE UNCHANGED varsParser
    /\ IF sub = "fetch" THEN TRUE ELSE UNCHANGED varsFetch
    /\ IF sub = "jobs" THEN TRUE ELSE UNCHANGED varsJobs
    /\ IF sub = "smparse" THEN TRUE ELSE UNCHANGED varsSmparse
    /\ IF sub = "ashmain" THEN TRUE ELSE UNCHANGED varsAshmain
    /\ IF sub = "dedup" THEN TRUE ELSE UNCHANGED varsDedup
    /\ IF sub = "pool" THEN TRUE ELSE UNCHANGED varsPool
    /\ IF sub = "csv" THEN TRUE ELSE UNCHANGED varsCsv
    /\ IF sub = "ashurls" THEN TRUE ELSE UNCHANGED varsAshurls

(***************************************************************************)
(* String helpers (Python str methods used by the code).                   *)
(***************************************************************************)
\* str.find(c, from) with 1-based positions; 0 when c does not occur.
Find(s, c, from) ==
    LET hits == {i \in from..Len(s) : s[i] = c}
    IN  IF hits = {} THEN 0 ELSE CHOOSE i \in hits : \A j \in hits : i <= j

\* str.rfind(c) with 1-based positions; 0 when c does not occur.
RFind(s, c) ==
    LET hits == {i \in 1..Len(s) : s[i] = c}
    IN  IF hits = {} THEN 0 ELSE CHOOSE i \in hits : \A j \in hits : i >= j

\* str.strip(chars): remove every leading and trailing character in chars.
StripChars(s, chars) ==
    LET keep == {i \in 1..Len(s) : s[i] \notin chars}
    IN  IF keep = {} THEN <<>>
        ELSE SubSeq(s, CHOOSE i \in keep : \A j \in keep : i <= j,
                       CHOOSE i \in keep : \A j \in keep : i >= j)

UpperChars ==
    <<"A","B","C","D","E","F","G","H","I","J","K","L","M",
      "N","O","P","Q","R","S","T","U","V","W","X","Y","Z">>

LowerChars ==
    <<"a","b","c","d","e","f","g","h","i","j","k","l","m",
      "n","o","p","q","r","s","t","u","v","w","x","y","z">>

\* str.lower() on ASCII text.
Lower(s) ==
    [i \in 1..Len(s) |->
        IF \E k \in 1..26 : UpperChars[k] = s[i]
        THEN LowerChars[CHOOSE k \in 1..26 : UpperChars[k] = s[i]]
        ELSE s[i]]

\* sub in s (substring test).
Contains(s, sub) ==
    \E i \in 1..(Len(s) - Len(sub) + 1) : SubSeq(s, i, i + Len(sub) - 1) = sub

\* s.endswith(suf)
EndsWith(s, suf) ==
    /\ Len(suf) <= Len(s)
    /\ SubSeq(s, Len(s) - Len(suf) + 1, Len(s)) = suf

\* a returned bool, kept apart from the "unset" of a call not yet made
PyBool(b) == IF b THEN "True" ELSE "False"

(***************************************************************************)
(* urllib.parse.urlparse, as called by _is_plp_url.                        *)
(***************************************************************************)
Alpha == {LowerChars[k] : k \in 1..26} \cup {UpperChars[k] : k \in 1..26}

SchemeChars == Alpha \cup {"0","1","2","3","4","5","6","7","8","9","+","-","."}

\* the schemes of urllib's uses_params that the model's URLs can carry
UsesParams == {<<>>, <<"h","t","t","p">>, <<"h","t","t","p","s">>, <<"f","t","p">>}

\* urlsplit, step 1: a leading "scheme:".
SplitScheme(u) ==
    LET i == Find(u, ":", 1)
    IN  IF i > 1 /\ u[1] \in Alpha /\ \A k \in 1..(i - 1) : u[k] \in SchemeChars
        THEN [scheme |-> Lower(SubSeq(u, 1, i - 1)), rest |-> SubSeq(u, i + 1, Len(u))]
        ELSE [scheme |-> <<>>, rest |-> u]

\* urlsplit, step 2: "//netloc" up to the first of "/", "?", "#".
SplitNetloc(u) ==
    IF Len(u) >= 2 /\ u[1] = "/" /\ u[2] = "/"
    THEN LET ends  == {i \in 3..Len(u) : u[i] \in {"/", "?", "#"}}
             delim == IF ends = {} THEN Len(u) + 1
                      ELSE CHOOSE i \in ends : \A j \in ends : i <= j
         IN  [netloc |-> SubSeq(u, 3, delim - 1), rest |-> SubSeq(u, delim, Len(u))]
    ELSE [netloc |-> <<>>, rest |-> u]

\* url.split(c, 1): the text before and after the first c.
SplitFirst(u, c) ==
    LET i == Find(u, c, 1)
    IN  IF i = 0 THEN [head |-> u, tail |-> <<>>]
        ELSE [head |-> SubSeq(u, 1, i - 1), tail |-> SubSeq(u, i + 1, Len(u))]

\* urllib.parse._splitparams: ";params" of the last path segment.
SplitParams(u) ==
    LET slash == RFind(u, "/")
        i     == IF slash > 0 THEN Find(u, ";", slash) ELSE Find(u, ";", 1)
    IN  IF i = 0 THEN [head |-> u, tail |-> <<>>]
        ELSE [head |-> SubSeq(u, 1, i - 1), tail |-> SubSeq(u, i + 1, Len(u))]

urlparse(u) ==
    LET s == SplitScheme(u)
        n == SplitNetloc(s.rest)
        f == SplitFirst(n.rest, "#")
        q == SplitFirst(f.head, "?")
        p == IF s.scheme \in UsesParams
             THEN SplitParams(q.head)
             ELSE [head |-> q.head, tail |-> <<>>]
    IN  [scheme |-> s.scheme, netloc |-> n.netloc, path |-> p.head,
         params |-> p.tail, query |-> q.tail, fragment |-> f.tail]

(***************************************************************************)
(* ProductFetcher._is_plp_url                                              *)
(***************************************************************************)
\* a classifier that forgets the empty path
Mut_is_plp_url(u) ==
    Find(StripChars(urlparse(u).path, {"/"}), "/", 1) > 0

_is_plp_url(u) ==
    LET path == StripChars(urlparse(u).path, {"/"})
    IN  IF path = <<>> THEN TRUE ELSE Find(path, "/", 1) > 0

(***************************************************************************)
(* The URLs the classifier is run on: every composition of the components  *)
(* below that is a well-formed URL reference.                              *)
(***************************************************************************)
Schemes == {<<>>, <<"h","t","t","p","s">>, <<"H","t","t","p">>, <<"w","s">>}

Netlocs == {<<>>, <<"c",".","c","o">>}

Paths ==
    {<<>>, <<"/">>, <<"/","/">>, <<"/","a">>, <<"/","a","/">>, <<"/","a","/","/">>,
     <<"/","a","/","b">>, <<"/","a","/","b","/">>, <<"/","a","/","/","b">>,
     <<"a">>, <<"a","/">>, <<"a","/","b">>, <<"/","a",".","h","t","m","l">>,
     <<"/","/","a">>, <<"/","/","a","/">>, <<"/","c","/","p","-","1">>}

Params == {<<>>, <<"p">>}

Queries == {<<>>, <<"q","=","/","x","/","y">>}

Fragments == {<<>>, <<"f","/","g">>}

\* RFC 3986 section 3: what a path may look like next to the other components;
\* ";params" is a component of its own only under the schemes that have it
WellFormed(c) ==
    /\ c.params # <<>> => Lower(c.scheme) \in UsesParams
    /\ c.netloc # <<>> => (c.path = <<>> \/ c.path[1] = "/")
    /\ c.netloc = <<>> => ~(Len(c.path) >= 2 /\ c.path[1] = "/" /\ c.path[2] = "/")

\* RFC 3986 section 5.3 recomposition (with the ";params" of RFC 2396)
Compose(c) ==
    (IF c.scheme = <<>> THEN <<>> ELSE c.scheme \o <<":">>)
    \o (IF c.netloc = <<>> THEN <<>> ELSE <<"/", "/">> \o c.netloc)
    \o c.path
    \o (IF c.params = <<>> THEN <<>> ELSE <<";">> \o c.params)
    \o (IF c.query = <<>> THEN <<>> ELSE <<"?">> \o c.query)
    \o (IF c.fragment = <<>> THEN <<>> ELSE <<"#">> \o c.fragment)

UrlParts ==
    {c \in [scheme : Schemes, netloc : Netlocs, path : Paths, params : Params,
            query : Queries, fragment : Fragments] : WellFormed(c)}

InitUrl ==
    /\ parts \in UrlParts
    /\ url = Compose(parts)
    /\ is_plp = "unset"
    /\ Parked("url")

Classify ==
    /\ is_plp = "unset"
    /\ is_plp' = PyBool(_is_plp_url(url))
    /\ UNCHANGED <<parts, url>>
    /\ Frame("url")

SpecUrl == InitUrl /\ [][Classify]_vars

\* the path is one non-empty segment, possibly wrapped in slashes
SingleSegment(path) ==
    \E i \in 1..Len(path) : \E j \in i..Len(path) :
        \A k \in 1..Len(path) : (path[k] = "/") <=> (k < i \/ k > j)

\* C1: _is_plp_url returns False exactly for a URL whose path is a single
\* non-empty segment and True for every other path (empty, or with an inner
\* '/'), whatever the scheme, host, params, query and fragment are.
C1_PlpIffNotSingleSegment ==
    is_plp # "unset" => (is_plp = PyBool(~SingleSegment(parts.path)))

C1_Witness ==
    /\ is_plp = "False"
    /\ parts.path = <<"/","a","/">>
    /\ parts.query # <<>>
    /\ parts.fragment # <<>>
    /\ parts.netloc # <<>>

(***************************************************************************)
(* Product requests and ProductFetcher.handle_product_error                *)
(***************************************************************************)
MaxRetries == 3

RetryStatuses == {405, 429, 500, 502, 503, 504}

\* the HTTP statuses a failed product request is seen with
Statuses == RetryStatuses \cup {403, 404}

\* the independent product requests of the run
NumChains == 2

Chains == 1..NumChains

\* failure.request.meta.get('retry_count', 0)
MetaRetryCount(meta) == IF meta.has_retry_count THEN meta.retry_count ELSE 0

\* a request's meta: the retry_count key may be missing
NoRetryCount == [has_retry_count |-> FALSE, retry_count |-> 0]

WithRetryCount(n) == [has_retry_count |-> TRUE, retry_count |-> n]

\* what an errback returns: a request to schedule, or None
ReturnNone == [request |-> FALSE, retry_count |-> 0]

ReturnRequest(n) == [request |-> TRUE, retry_count |-> n]

\* a handler that allows one retry too many
Mut_handle_product_error(meta, failure) ==
    IF failure.has_response
       /\ failure.status \in RetryStatuses /\ MetaRetryCount(meta) <= MaxRetries
    THEN ReturnRequest(MetaRetryCount(meta) + 1)
    ELSE ReturnNone

\* the errback's return value: the copied request with its new retry_count, or
\* None when the URL is only logged
handle_product_error(meta, failure) ==
    IF failure.has_response
    THEN IF failure.status \in RetryStatuses /\ MetaRetryCount(meta) < MaxRetries
         THEN ReturnRequest(MetaRetryCount(meta) + 1)
         ELSE ReturnNone
    ELSE ReturnNone

\* the errors Scrapy hands to the errback: an HttpError carrying the response,
\* or a download error (timeout, DNS, connection lost) carrying none
Failures ==
    [has_response : {TRUE}, status : Statuses]
    \cup {[has_response |-> FALSE, status |-> 0]}

InitRetry ==
    /\ reqs = [c \in Chains |-> [state |-> "new", meta |-> NoRetryCount]]
    /\ issued = [c \in Chains |-> 0]
    /\ lastErr = [chain |-> 0, failure |-> [has_response |-> FALSE, status |-> 0],
                  retry_count |-> 0, returned |-> ReturnNone]
    /\ Parked("retry")

\* start_requests, Ashley mode: the request carries retry_count 0
StartRequestsAshley(c) ==
    /\ reqs[c].state = "new"
    /\ reqs' = [reqs EXCEPT ![c] = [state |-> "pending", meta |-> WithRetryCount(0)]]
    /\ issued' = [issued EXCEPT ![c] = 1]
    /\ UNCHANGED lastErr
    /\ Frame("retry")

\* parse_product_sitemap and extract_bundle_products: no retry_count in meta
RequestWithoutRetryCount(c) ==
    /\ reqs[c].state = "new"
    /\ reqs' = [reqs EXCEPT ![c] = [state |-> "pending", meta |-> NoRetryCount]]
    /\ issued' = [issued EXCEPT ![c] = 1]
    /\ UNCHANGED lastErr
    /\ Frame("retry")

\* the response arrives and parse_product_page_with_check takes it
ProductResponse(c) ==
    /\ reqs[c].state = "pending"
    /\ reqs' = [reqs EXCEPT ![c].state = "parsed"]
    /\ UNCHANGED <<issued, lastErr>>
    /\ Frame("retry")

\* the request fails and Scrapy calls the errback; a returned request is scheduled
ProductError(c, failure) ==
    /\ reqs[c].state = "pending"
    /\ LET ret == handle_product_error(reqs[c].meta, failure)
       IN  /\ lastErr' = [chain |-> c, failure |-> failure,
                          retry_count |-> MetaRetryCount(reqs[c].meta),
                          returned |-> ret]
           /\ IF ret.request
              THEN /\ reqs' = [reqs EXCEPT ![c].meta = WithRetryCount(ret.retry_count)]
                   /\ issued' = [issued EXCEPT ![c] = @ + 1]
              ELSE /\ reqs' = [reqs EXCEPT ![c].state = "dropped"]
                   /\ UNCHANGED issued
    /\ Frame("retry")

NextRetry ==
    \/ \E c \in Chains : StartRequestsAshley(c)
    \/ \E c \in Chains : RequestWithoutRetryCount(c)
    \/ \E c \in Chains : ProductResponse(c)
    \/ \E c \in Chains : \E failure \in Failures : ProductError(c, failure)

SpecRetry == InitRetry /\ [][NextRetry]_vars

\* C3: the errback returns a request only for a failure that carries a response
\* with status 405, 429, 500, 502, 503 or 504 on a request whose retry_count is
\* below 3, and that request has retry_count one higher; so no request carries
\* a retry_count above 3, no URL is requested more than 4 times, and a
\* failure at retry_count 3 drops the URL.
C3_RetryBounded ==
    /\ lastErr.chain # 0 =>
          /\ lastErr.returned.request =>
                /\ lastErr.failure.has_response
                /\ lastErr.failure.status \in {405, 429, 500, 502, 503, 504}
                /\ lastErr.retry_count < 3
                /\ lastErr.returned.retry_count = lastErr.retry_count + 1
          /\ lastErr.retry_count >= 3 =>
                /\ ~lastErr.returned.request
                /\ reqs[lastErr.chain].state = "dropped"
    /\ \A c \in Chains :
          /\ MetaRetryCount(reqs[c].meta) <= 3
          /\ issued[c] <= 4

C3_Witness ==
    \E c \in Chains :
        /\ issued[c] = 4
        /\ reqs[c].state = "dropped"
        /\ lastErr.chain = c
        /\ lastErr.failure.has_response
        /\ lastErr.failure.status = 503

(***************************************************************************)
(* Chunked execution of ProductFetcher: the slice a chunk spider takes     *)
(***************************************************************************)
Min(a, b) == IF a <= b THEN a ELSE b

\* Python's L[a:b] and L[a:] for 0 <= a and 0 <= b
PySlice(L, a, b) == SubSeq(L, a + 1, Min(b, Len(L)))

PyFrom(L, a) == SubSeq(L, a + 1, Len(L))

\* a slice that ends at limit and not at offset + limit
Mut_get_sitemap_chunks(all_sitemaps, offset, limit) ==
    IF limit = 0 THEN PyFrom(all_sitemaps, offset)
    ELSE PySlice(all_sitemaps, offset, limit)

\* SitemapProcessor.get_sitemap_chunks
get_sitemap_chunks(all_sitemaps, offset, limit) ==
    IF limit = 0 THEN PyFrom(all_sitemaps, offset)
    ELSE PySlice(all_sitemaps, offset, offset + limit)

\* the kwargs of a ProductFetcher that matter to chunking
Spider(mode, id, total, size) ==
    [chunk_mode |-> mode, chunk_id |-> id, total_chunks |-> total, chunk_size |-> size,
     sitemap_offset |-> 0, max_sitemaps |-> 0, max_urls_per_sitemap |-> 0]

\* a last chunk that takes chunk_size elements like the others
Mut_SitemapChunk(sp, all_sitemaps) ==
    LET auto       == Len(all_sitemaps) \div sp.total_chunks
        chunk_size == IF sp.chunk_size > 0 THEN sp.chunk_size ELSE auto
        start_idx  == sp.chunk_id * chunk_size
    IN  PySlice(all_sitemaps, start_idx, start_idx + chunk_size)

\* __init__: self.sitemap_chunk
SitemapChunk(sp, all_sitemaps) ==
    IF sp.chunk_mode /\ sp.total_chunks > 1
    THEN LET auto       == Len(all_sitemaps) \div sp.total_chunks
             chunk_size == IF sp.chunk_size > 0 THEN sp.chunk_size ELSE auto
             start_idx  == sp.chunk_id * chunk_size
         IN  IF sp.chunk_id = sp.total_chunks - 1
             THEN PyFrom(all_sitemaps, start_idx)
             ELSE PySlice(all_sitemaps, start_idx, start_idx + chunk_size)
    ELSE get_sitemap_chunks(all_sitemaps, sp.sitemap_offset, sp.max_sitemaps)

\* start_requests, Ashley mode: urls_to_process
AshleyUrlsToProcess(sp, ashley_urls) ==
    IF sp.chunk_mode /\ sp.total_chunks > 1
    THEN LET chunk_size == IF sp.chunk_size > 0 THEN sp.chunk_size
                           ELSE Len(ashley_urls) \div sp.total_chunks
             start_idx  == sp.chunk_id * chunk_size
         IN  IF sp.chunk_id = sp.total_chunks - 1
             THEN PyFrom(ashley_urls, start_idx)
             ELSE PySlice(ashley_urls, start_idx, start_idx + chunk_size)
    ELSE ashley_urls

MaxListLen == 5

MaxTotalChunks == 3

MaxChunkSize == 3

\* a list of n distinct elements: element i stands at position i
ListOf(n) == [i \in 1..n |-> i]

InitSlice ==
    /\ slice_cfg \in [list : {"all_sitemaps", "ashley_urls"},
                       L : {ListOf(n) : n \in 0..MaxListLen},
                       total_chunks : 2..MaxTotalChunks,
                       chunk_size : 0..MaxChunkSize]
    /\ slices = [c \in 0..(slice_cfg.total_chunks - 1) |-> [taken |-> FALSE, items |-> <<>>]]
    /\ Parked("slice")

\* the spider of chunk c is constructed in sitemap mode
ConstructSitemapSpider(c) ==
    /\ slice_cfg.list = "all_sitemaps"
    /\ ~slices[c].taken
    /\ slices' = [slices EXCEPT ![c] =
          [taken |-> TRUE,
           items |-> SitemapChunk(Spider(TRUE, c, slice_cfg.total_chunks,
                                         slice_cfg.chunk_size), slice_cfg.L)]]
    /\ UNCHANGED slice_cfg
    /\ Frame("slice")

\* the spider of chunk c starts its requests in Ashley mode
StartAshleySpider(c) ==
    /\ slice_cfg.list = "ashley_urls"
    /\ ~slices[c].taken
    /\ slices' = [slices EXCEPT ![c] =
          [taken |-> TRUE,
           items |-> AshleyUrlsToProcess(Spider(TRUE, c, slice_cfg.total_chunks,
                                                slice_cfg.chunk_size), slice_cfg.L)]]
    /\ UNCHANGED slice_cfg
    /\ Frame("slice")

NextSlice ==
    \/ \E c \in DOMAIN slices : ConstructSitemapSpider(c)
    \/ \E c \in DOMAIN slices : StartAshleySpider(c)

SpecSlice == InitSlice /\ [][NextSlice]_vars

RECURSIVE ConcatSlices(_, _)
\* the slices of chunks 0..c, one after the other
ConcatSlices(sl, c) ==
    IF c < 0 THEN <<>> ELSE ConcatSlices(sl, c - 1) \o sl[c].items

\* C5: with total_chunks = k > 1 every slice is a contiguous run of L, two
\* chunks never share a position, the last chunk's slice runs to the end of
\* L, and the slices of chunks 0..k-1 in order concatenate to L; for the
\* auto-calculated size len(L) // k and for every explicit chunk_size > 0.
C5_SlicesPartition ==
    LET L    == slice_cfg.L
        last == slice_cfg.total_chunks - 1
    IN  /\ \A c \in DOMAIN slices : slices[c].taken =>
              \E a \in 0..Len(L) : \E n \in 0..(Len(L) - a) :
                  slices[c].items = [i \in 1..n |-> L[a + i]]
        /\ \A c, d \in DOMAIN slices : c # d =>
              {slices[c].items[i] : i \in 1..Len(slices[c].items)}
              \cap {slices[d].items[i] : i \in 1..Len(slices[d].items)} = {}
        /\ slices[last].taken =>
              \E a \in 0..Len(L) : slices[last].items = [i \in 1..(Len(L) - a) |-> L[a + i]]
        /\ (\A c \in DOMAIN slices : slices[c].taken) => ConcatSlices(slices, last) = L

\* all three chunks of a 2-element list are taken (auto size 0): the last
\* chunk holds both elements
C5_Witness ==
    /\ slice_cfg.total_chunks = 3
    /\ slice_cfg.chunk_size = 0
    /\ Len(slice_cfg.L) = 2
    /\ \A c \in DOMAIN slices : slices[c].taken
    /\ Len(slices[2].items) = 2

(***************************************************************************)
(* Sitemap mode: __init__, start_requests and parse_product_sitemap of the *)
(* chunk spiders of one website                                            *)
(***************************************************************************)
Digits == <<"0","1","2","3","4","5","6","7","8","9">>

\* the j-th product page listed in sitemap s, and the sitemap's listing page
ProductUrl(s, j) ==
    <<"h","t","t","p","s",":","/","/","c",".","c","o","/","p",
      Digits[s + 1], "-", Digits[j + 1]>>

ListingUrl(s) ==
    <<"h","t","t","p","s",":","/","/","c",".","c","o","/","c","/", Digits[s + 1]>>

\* the <loc> entries of sitemap s, in document order
SitemapUrls(s) ==
    (IF site.with_listing THEN <<ListingUrl(s)>> ELSE <<>>)
    \o [j \in 1..site.urls_per_sitemap |-> ProductUrl(s, j)]

RECURSIVE SelectPdp(_)
\* pdp_urls: the URLs _is_plp_url does not take for a listing, in order
SelectPdp(urls) ==
    IF urls = <<>> THEN <<>>
    ELSE (IF _is_plp_url(Head(urls)) THEN <<>> ELSE <<Head(urls)>>)
         \o SelectPdp(Tail(urls))

\* the limit applied to the product URLs and not to the sitemap entries
Mut_parse_product_sitemap(sp, listed) ==
    IF sp.max_urls_per_sitemap > 0
    THEN PySlice(SelectPdp(listed), 0, sp.max_urls_per_sitemap)
    ELSE SelectPdp(listed)

\* the URLs parse_product_sitemap requests, in order
parse_product_sitemap(sp, listed) ==
    LET all_urls == IF sp.max_urls_per_sitemap > 0
                    THEN PySlice(listed, 0, sp.max_urls_per_sitemap)
                    ELSE listed
        pdp_urls == SelectPdp(all_urls)
    IN  IF sp.chunk_mode /\ sp.total_chunks > 1
        THEN LET chunk_size == IF sp.chunk_size > 0 THEN sp.chunk_size
                               ELSE Len(pdp_urls) \div sp.total_chunks
                 start_idx  == sp.chunk_id * chunk_size
             IN  IF chunk_size > 0
                 THEN IF sp.chunk_id = sp.total_chunks - 1
                      THEN PyFrom(pdp_urls, start_idx)
                      ELSE PySlice(pdp_urls, start_idx, start_idx + chunk_size)
                 ELSE pdp_urls
        ELSE pdp_urls

MaxSitemaps == 3

MaxUrlsPerSitemap == 3

MaxUrlLimit == 1

\* the spider of chunk c of the run
SitemapSpider(c) ==
    [Spider(TRUE, c, site.total_chunks, site.chunk_size)
        EXCEPT !.max_urls_per_sitemap = site.max_urls_per_sitemap]

InitSitemap ==
    /\ site \in [all_sitemaps : {ListOf(n) : n \in 1..MaxSitemaps},
                  urls_per_sitemap : 0..MaxUrlsPerSitemap,
                  with_listing : BOOLEAN,
                  total_chunks : 2..MaxTotalChunks,
                  chunk_size : 0..MaxChunkSize,
                  max_urls_per_sitemap : 0..MaxUrlLimit]
    /\ spiders = [c \in 0..(site.total_chunks - 1) |->
                    [phase |-> "new", sitemap_chunk |-> <<>>, pending |-> {},
                     requested |-> <<>>]]
    /\ Parked("sitemap")

\* ProductFetcher.__init__ of chunk c
ConstructSpider(c) ==
    /\ spiders[c].phase = "new"
    /\ spiders' = [spiders EXCEPT ![c].phase = "constructed",
                                  ![c].sitemap_chunk =
                                      SitemapChunk(SitemapSpider(c), site.all_sitemaps)]
    /\ UNCHANGED site
    /\ Frame("sitemap")

\* start_requests, sitemap mode: one request per sitemap of the chunk
StartSitemapRequests(c) ==
    /\ spiders[c].phase = "constructed"
    /\ spiders' = [spiders EXCEPT ![c].phase = "started",
                                  ![c].pending = 1..Len(spiders[c].sitemap_chunk)]
    /\ UNCHANGED site
    /\ Frame("sitemap")

\* the response of the i-th sitemap request of chunk c is parsed
ParseProductSitemap(c, i) ==
    /\ spiders[c].phase = "started"
    /\ i \in spiders[c].pending
    /\ spiders' = [spiders EXCEPT
          ![c].pending = @ \ {i},
          ![c].requested = @ \o parse_product_sitemap(
                                   SitemapSpider(c),
                                   SitemapUrls(spiders[c].sitemap_chunk[i]))]
    /\ UNCHANGED site
    /\ Frame("sitemap")

NextSitemap ==
    \/ \E c \in DOMAIN spiders : ConstructSpider(c)
    \/ \E c \in DOMAIN spiders : StartSitemapRequests(c)
    \/ \E c \in DOMAIN spiders : \E i \in 1..MaxSitemaps : ParseProductSitemap(c, i)

SpecSitemap == InitSitemap /\ [][NextSitemap]_vars

\* every chunk spider has parsed every sitemap response it asked for
AllSpidersDone ==
    \A c \in DOMAIN spiders : spiders[c].phase = "started" /\ spiders[c].pending = {}

\* how often chunk c requested URL u
TimesRequested(c, u) ==
    Cardinality({i \in 1..Len(spiders[c].requested) : spiders[c].requested[i] = u})

\* C4: when the k chunk spiders of a sitemap-mode run (no per-sitemap URL
\* limit) have finished, every product URL of every discovered sitemap was
\* requested by exactly one chunk.
C4_EveryProductUrlInOneChunk ==
    (AllSpidersDone /\ site.max_urls_per_sitemap = 0) =>
        \A s \in 1..Len(site.all_sitemaps) : \A j \in 1..site.urls_per_sitemap :
            Cardinality({c \in DOMAIN spiders : TimesRequested(c, ProductUrl(s, j)) > 0}) = 1

(***************************************************************************)
(* run_ashley_scraper.py: main in parallel product mode, its worker        *)
(* processes and the spider each of them runs                              *)
(***************************************************************************)
\* split_into_chunks
split_into_chunks(url_list, chunk_size) ==
    [i \in 1..((Len(url_list) + chunk_size - 1) \div chunk_size) |->
        PySlice(url_list, (i - 1) * chunk_size, i * chunk_size)]

\* main, lines 531-541: the chunks handed to the worker processes
MainChunks(all_ashley_urls, product_chunks, chunk_size_arg) ==
    LET total_urls == Len(all_ashley_urls)
        chunk_size == IF chunk_size_arg > 0 THEN chunk_size_arg
                      ELSE (total_urls \div product_chunks)
                           + (IF total_urls % product_chunks # 0 THEN 1 ELSE 0)
    IN  PySlice(split_into_chunks(all_ashley_urls, chunk_size), 0, product_chunks)

\* run_scraper_chunk: the requests of the ProductFetcher it crawls with
\* (chunk_size is not passed and stays 0)
run_scraper_chunk(chunk_id, total_chunks, chunk_urls) ==
    AshleyUrlsToProcess(Spider(TRUE, chunk_id, total_chunks, 0), chunk_urls)

MaxUrls == 5

MaxProductChunks == 3

InitRunner ==
    /\ args \in [all_ashley_urls : {ListOf(n) : n \in 1..MaxUrls},
                  product_chunks : 1..MaxProductChunks,
                  chunk_size : 0..MaxChunkSize]
    /\ chunks = <<>>
    /\ workers = [phase |-> "args", procs |-> <<>>]
    /\ Parked("runner")

\* main with --product-chunks <= 1: one spider, chunk_mode off
MainSingleProcess ==
    /\ workers.phase = "args"
    /\ args.product_chunks <= 1
    /\ chunks' = <<args.all_ashley_urls>>
    /\ workers' = [phase |-> "joined",
                   procs |-> <<[started |-> TRUE, ran |-> TRUE,
                               requested |-> AshleyUrlsToProcess(
                                   Spider(FALSE, 0, 1, 0), args.all_ashley_urls)]>>]
    /\ UNCHANGED args
    /\ Frame("runner")

\* main with --product-chunks > 1: split the URL list
MainSplit ==
    /\ workers.phase = "args"
    /\ args.product_chunks > 1
    /\ chunks' = MainChunks(args.all_ashley_urls, args.product_chunks, args.chunk_size)
    /\ workers' = [phase |-> "split",
                   procs |-> [i \in 1..Len(chunks') |->
                               [started |-> FALSE, ran |-> FALSE, requested |-> <<>>]]]
    /\ UNCHANGED args
    /\ Frame("runner")

\* main, lines 552-562: Process(...).start() for the next chunk
StartProcess(i) ==
    /\ workers.phase = "split"
    /\ i \in DOMAIN workers.procs
    /\ ~workers.procs[i].started
    /\ \A j \in 1..(i - 1) : workers.procs[j].started
    /\ workers' = [workers EXCEPT !.procs[i].started = TRUE]
    /\ UNCHANGED <<args, chunks>>
    /\ Frame("runner")

\* worker process i runs run_scraper_chunk(i - 1, len(chunks), chunks[i])
RunScraperChunk(i) ==
    /\ workers.phase = "split"
    /\ i \in DOMAIN workers.procs
    /\ workers.procs[i].started
    /\ ~workers.procs[i].ran
    /\ workers' = [workers EXCEPT
          !.procs[i].ran = TRUE,
          !.procs[i].requested = run_scraper_chunk(i - 1, Len(chunks), chunks[i])]
    /\ UNCHANGED <<args, chunks>>
    /\ Frame("runner")

\* main, lines 564-566: every process is joined
JoinAll ==
    /\ workers.phase = "split"
    /\ \A i \in DOMAIN workers.procs : workers.procs[i].ran
    /\ workers' = [workers EXCEPT !.phase = "joined"]
    /\ UNCHANGED <<args, chunks>>
    /\ Frame("runner")

NextRunner ==
    \/ MainSingleProcess
    \/ MainSplit
    \/ \E i \in 1..MaxProductChunks : StartProcess(i)
    \/ \E i \in 1..MaxProductChunks : RunScraperChunk(i)
    \/ JoinAll

SpecRunner == InitRunner /\ [][NextRunner]_vars

\* C6: in parallel product mode every validated URL lies in exactly one of
\* the chunks handed to workers, and at most product_chunks workers exist;
\* for the auto-calculated chunk size and for every explicit --chunk-size.
C6_EveryUrlInOneChunk ==
    (workers.phase # "args" /\ args.product_chunks > 1) =>
        /\ Len(chunks) <= args.product_chunks
        /\ \A p \in 1..Len(args.all_ashley_urls) :
              Cardinality({i \in 1..Len(chunks) :
                  \E q \in 1..Len(chunks[i]) : chunks[i][q] = args.all_ashley_urls[p]}) = 1

\* C7: a chunk worker that has run issued an initial request for every URL
\* of its chunk_urls.
C7_WorkerRequestsItsChunk ==
    \A i \in DOMAIN workers.procs :
        workers.procs[i].ran => workers.procs[i].requested = chunks[i]

(***************************************************************************)
(* ProductFetcher.extract_bundle_products, run as a generator for every    *)
(* parsed product page that carries Product JSON-LD                        *)
(***************************************************************************)
MaxBundleProducts == 5

Whitespace == {" "}

\* the absolute URL of page x, and a relative link to it
Abs(x) == <<"s", ":", "/", "/", x>>

Rel(x) == <<"/", x>>

\* entries of productLayouts.simpleItems
UrlItem(text) == [is_dict |-> TRUE, url_kind |-> "str", url |-> text]

NoUrlItem == [is_dict |-> TRUE, url_kind |-> "missing", url |-> <<>>]

NonStrUrlItem == [is_dict |-> TRUE, url_kind |-> "nonstr", url |-> <<>>]

NotDictItem == [is_dict |-> FALSE, url_kind |-> "missing", url |-> <<>>]

\* scrapy.Request(url) raises ValueError for a URL without a scheme
RequestRaises(u) == ~Contains(u, <<":", "/", "/">>)

\* a loop body that does not look the URL up in _processed_bundle_urls
Mut_BundleLoopBody(item, response_url, processed) ==
    IF ~item.is_dict THEN [do |-> "continue", url |-> <<>>]
    ELSE IF item.url_kind # "str" \/ item.url = <<>> THEN [do |-> "continue", url |-> <<>>]
    ELSE LET sub_product_url == StripChars(item.url, Whitespace)
         IN  IF sub_product_url = response_url
             THEN [do |-> "continue", url |-> <<>>]
             ELSE IF RequestRaises(sub_product_url)
                  THEN [do |-> "raise", url |-> sub_product_url]
                  ELSE [do |-> "yield", url |-> sub_product_url]

\* one pass of the loop over simple_items[:5]: skip the item, yield a request
\* for its URL, or record the URL and fail constructing the request
BundleLoopBody(item, response_url, processed) ==
    IF ~item.is_dict THEN [do |-> "continue", url |-> <<>>]
    ELSE IF item.url_kind # "str" \/ item.url = <<>> THEN [do |-> "continue", url |-> <<>>]
    ELSE LET sub_product_url == StripChars(item.url, Whitespace)
         IN  IF sub_product_url = response_url \/ sub_product_url \in processed
             THEN [do |-> "continue", url |-> <<>>]
             ELSE IF RequestRaises(sub_product_url)
                  THEN [do |-> "raise", url |-> sub_product_url]
                  ELSE [do |-> "yield", url |-> sub_product_url]

\* simple_items[:5] of a page whose App script parses to a list; no items when
\* the script is absent, empty, not JSON, or simpleItems cannot be sliced
BundleItems(page) ==
    IF page.script = "ok" THEN PySlice(page.simple_items, 0, MaxBundleProducts) ELSE <<>>

PageNames == {"a", "b", "c", "d", "e", "f", "g", "h"}

Page(product_json, script, items) ==
    [has_product_json |-> product_json, script |-> script, simple_items |-> items]

\* what a start page may look like
StartPages ==
    {Page(TRUE, "ok", <<>>),
     Page(TRUE, "ok", <<UrlItem(Abs("b")), UrlItem(Abs("c")),
                        UrlItem(<<" ">> \o Abs("c") \o <<" ">>), UrlItem(Abs("a"))>>),
     Page(TRUE, "ok", <<UrlItem(Abs("c")), UrlItem(Abs("d")), UrlItem(Abs("e")),
                        UrlItem(Abs("f")), UrlItem(Abs("g")), UrlItem(Abs("h")),
                        UrlItem(Abs("b"))>>),
     Page(TRUE, "ok", <<NotDictItem, NoUrlItem, UrlItem(Abs("d")), NonStrUrlItem,
                        UrlItem(<<>>), UrlItem(Abs("c"))>>),
     Page(TRUE, "ok", <<UrlItem(Abs("d")), UrlItem(Rel("e")), UrlItem(Abs("f"))>>),
     Page(FALSE, "ok", <<UrlItem(Abs("c")), UrlItem(Abs("d"))>>),
     Page(TRUE, "absent", <<>>),
     Page(TRUE, "not_json", <<>>),
     Page(TRUE, "not_sliceable", <<>>)}

\* the start URL of the run
StartUrls == {"a"}

\* page c lists its parent, a sibling and itself; the other sub-product pages
\* carry no Product JSON-LD
InitBundle ==
    /\ \E pa \in StartPages :
          pages = [x \in PageNames |->
                     IF x = "a" THEN pa
                     ELSE IF x = "c"
                          THEN Page(TRUE, "ok", <<UrlItem(Abs("a")), UrlItem(Abs("d")),
                                                  UrlItem(Abs("c"))>>)
                          ELSE Page(FALSE, "absent", <<>>)]
    /\ to_fetch = {[id |-> 0, page |-> x] : x \in StartUrls}
    /\ gens = <<>>
    /\ _processed_bundle_urls = {}
    /\ bundle_requests = <<>>
    /\ Parked("bundle")

\* parse_product_page_with_check on the response of request r: the item is
\* yielded, then the bundle generator is created if the page has Product JSON-LD
ParseProductPage(r) ==
    /\ r \in to_fetch
    /\ to_fetch' = to_fetch \ {r}
    /\ gens' = IF pages[r.page].has_product_json
               THEN Append(gens, [page |-> r.page, pos |-> 0, done |-> FALSE])
               ELSE gens
    /\ UNCHANGED <<pages, _processed_bundle_urls, bundle_requests>>
    /\ Frame("bundle")

\* Scrapy pulls the next value out of generator g: the loop runs on to its next
\* yield, to its end, or to the exception that ends it
ResumeBundleGenerator(g) ==
    /\ g \in DOMAIN gens
    /\ ~gens[g].done
    /\ LET items == BundleItems(pages[gens[g].page])
           pos   == gens[g].pos
       IN  IF pos >= Len(items)
           THEN /\ gens' = [gens EXCEPT ![g].done = TRUE]
                /\ UNCHANGED <<to_fetch, _processed_bundle_urls, bundle_requests>>
           ELSE LET step == BundleLoopBody(items[pos + 1], Abs(gens[g].page),
                                           _processed_bundle_urls)
                IN  /\ gens' = [gens EXCEPT ![g].pos = pos + 1,
                                            ![g].done = (step.do = "raise")]
                    /\ _processed_bundle_urls' =
                          IF step.do = "continue" THEN _processed_bundle_urls
                          ELSE _processed_bundle_urls \cup {step.url}
                    /\ IF step.do = "yield"
                       THEN /\ bundle_requests' =
                                  Append(bundle_requests, [url |-> step.url, gen |-> g])
                            /\ to_fetch' = to_fetch \cup
                                  {[id |-> Len(bundle_requests) + 1,
                                    page |-> step.url[Len(step.url)]]}
                       ELSE UNCHANGED <<to_fetch, bundle_requests>>
    /\ UNCHANGED pages
    /\ Frame("bundle")

NextBundle ==
    \/ \E r \in to_fetch : ParseProductPage(r)
    \/ \E g \in DOMAIN gens : ResumeBundleGenerator(g)

SpecBundle == InitBundle /\ [][NextBundle]_vars

\* C8: no two bundle requests of a run have the same URL, none has the URL of
\* the page it was found on, no parsed page yields more than 5 of them, every
\* requested URL is in _processed_bundle_urls, and that set never shrinks.
C8_BundleRequestsUnique ==
    /\ [](/\ \A i, j \in 1..Len(bundle_requests) :
                i # j => bundle_requests[i].url # bundle_requests[j].url
          /\ \A i \in 1..Len(bundle_requests) :
                /\ bundle_requests[i].url # Abs(gens[bundle_requests[i].gen].page)
                /\ bundle_requests[i].url \in _processed_bundle_urls
          /\ \A g \in 1..Len(gens) :
                Cardinality({i \in 1..Len(bundle_requests) : bundle_requests[i].gen = g}) <= 5)
    /\ [][_processed_bundle_urls \subseteq _processed_bundle_urls']_vars

\* a page listing seven sub-products was parsed to the end and yielded five
\* requests; the generator of page c, which lists one of them again, has
\* finished too and yielded a single request, for its parent
C8_Witness ==
    \E g, h \in 1..Len(gens) :
        /\ gens[g].done
        /\ Len(pages[gens[g].page].simple_items) = 7
        /\ Cardinality({i \in 1..Len(bundle_requests) : bundle_requests[i].gen = g}) = 5
        /\ gens[h].done
        /\ gens[h].page = "c"
        /\ {bundle_requests[i].url : i \in {j \in 1..Len(bundle_requests) :
                                               bundle_requests[j].gen = h}} = {Abs("a")}

(***************************************************************************)
(* ProductFetcher.extract_dimensions                                       *)
(***************************************************************************)
MaxDimItems == 3

MaxDimsPerItem == 3

\* an element of a dimension list: a string (possibly empty) or something else
Dim(text) == [is_str |-> TRUE, text |-> text]

NonStrDim == [is_str |-> FALSE, text |-> "0"]

\* an element of setIncludes.items or simpleItems: a dict with itemShortName and
\* dimension.list, a dict whose dimension is not a dict, or not a dict at all
DimItem(name, dims) == [is_dict |-> TRUE, name |-> name, dimension_ok |-> TRUE, dims |-> dims]

BadDimensionItem(name) ==
    [is_dict |-> TRUE, name |-> name, dimension_ok |-> FALSE, dims |-> <<>>]

NotDictDimItem == [is_dict |-> FALSE, name |-> <<>>, dimension_ok |-> TRUE, dims |-> <<>>]

RECURSIVE KeepStrings(_)
\* [dim for dim in dims if dim and isinstance(dim, str)]
KeepStrings(dims) ==
    IF dims = <<>> THEN <<>>
    ELSE (IF Head(dims).is_str /\ Head(dims).text # "" THEN <<Head(dims).text>> ELSE <<>>)
         \o KeepStrings(Tail(dims))

\* dimension_data: the strings among dimensions_list[:3]
DimensionData(dims) == KeepStrings(PySlice(dims, 0, MaxDimsPerItem))

\* result[key] = value on a dict kept in insertion order
DictSet(d, key, value) ==
    IF \E i \in 1..Len(d) : d[i].key = key
    THEN [i \in 1..Len(d) |-> IF d[i].key = key THEN [key |-> key, value |-> value] ELSE d[i]]
    ELSE Append(d, [key |-> key, value |-> value])

RECURSIVE CollectDimensions(_, _)
\* the loop over items[:3] (lines 779-797 and 803-820): the dict it builds, and
\* whether it raised
CollectDimensions(items, result) ==
    IF items = <<>> THEN [raised |-> FALSE, result |-> result]
    ELSE LET item == Head(items)
         IN  IF ~item.is_dict \/ item.name = <<>>
             THEN CollectDimensions(Tail(items), result)
             ELSE IF ~item.dimension_ok
                  THEN [raised |-> TRUE, result |-> result]
                  ELSE LET dimension_data == DimensionData(item.dims)
                       IN  CollectDimensions(Tail(items),
                               IF dimension_data # <<>>
                               THEN DictSet(result, Lower(item.name), dimension_data)
                               ELSE result)

\* a fallback that is tried whatever was found before
Mut_NotResult(result) == TRUE

\* "if not result": the next source is tried only on an empty dict
NotResult(result) == result = <<>>

\* the return value: '' or json.dumps(result); with it, the sources the call
\* read and whether it logged an exception
DimReturn(result, consulted, raised) ==
    [done |-> TRUE, empty |-> (result = <<>>), json |-> result,
     consulted |-> consulted, raised |-> raised]

\* lines 822-836: the accordion fallback
AccordionDimensions(page, consulted) ==
    IF page.accordion.kind = "bad"
    THEN DimReturn(<<>>, consulted, TRUE)
    ELSE LET dimension_data ==
                 IF page.accordion.kind = "dict"
                 THEN DimensionData(page.accordion.dims)
                 ELSE <<>>
         IN  DimReturn(IF dimension_data # <<>>
                       THEN <<[key |-> <<"d","i","m","e","n","s","i","o","n","s">>,
                               value |-> dimension_data]>>
                       ELSE <<>>,
                       consulted, FALSE)

\* lines 799-836: the simpleItems fallback, then the accordion
SimpleItemsDimensions(page) ==
    LET r == IF page.simple_is_list
             THEN CollectDimensions(PySlice(page.simple_items, 0, MaxDimItems), <<>>)
             ELSE [raised |-> FALSE, result |-> <<>>]
    IN  IF r.raised THEN DimReturn(<<>>, {"setIncludes", "simpleItems"}, TRUE)
        ELSE IF NotResult(r.result)
             THEN AccordionDimensions(page, {"setIncludes", "simpleItems", "accordion"})
             ELSE DimReturn(r.result, {"setIncludes", "simpleItems"}, FALSE)

extract_dimensions(page) ==
    IF page.script = "absent" THEN DimReturn(<<>>, {}, FALSE)
    ELSE IF page.script = "not_json" \/ ~page.content_ok THEN DimReturn(<<>>, {}, TRUE)
    ELSE LET r == CollectDimensions(PySlice(page.set_items, 0, MaxDimItems), <<>>)
         IN  IF r.raised THEN DimReturn(<<>>, {"setIncludes"}, TRUE)
             ELSE IF NotResult(r.result)
                  THEN SimpleItemsDimensions(page)
                  ELSE DimReturn(r.result, {"setIncludes"}, FALSE)

\* the longest setIncludes.items list tried
MaxSetItems == 4

SetItemPool ==
    {DimItem(<<"A">>, <<Dim("x")>>),
     DimItem(<<"a">>, <<Dim("p"), NonStrDim, Dim("q"), Dim("r")>>),
     DimItem(<<"B">>, <<NonStrDim, Dim(""), NonStrDim, Dim("y")>>),
     DimItem(<<>>, <<Dim("n")>>),
     BadDimensionItem(<<"C">>)}

RECURSIVE SeqsUpTo(_, _)
\* every sequence over S of length at most n
SeqsUpTo(S, n) ==
    IF n = 0 THEN {<<>>}
    ELSE LET shorter == SeqsUpTo(S, n - 1)
         IN  shorter \cup {Append(q, x) : q \in {t \in shorter : Len(t) = n - 1}, x \in S}

SimpleItemLists ==
    {<<>>,
     <<DimItem(<<"D">>, <<Dim("z")>>)>>,
     <<NotDictDimItem, DimItem(<<"d">>, <<NonStrDim, Dim("w")>>),
       DimItem(<<"D">>, <<Dim("z")>>), DimItem(<<"E">>, <<Dim("v")>>)>>,
     <<DimItem(<<"D">>, <<Dim("z")>>), BadDimensionItem(<<"F">>)>>}

Accordions ==
    {[kind |-> "missing", dims |-> <<>>],
     [kind |-> "bad", dims |-> <<>>],
     [kind |-> "dict", dims |-> <<NonStrDim, Dim("")>>],
     [kind |-> "dict", dims |-> <<Dim("h"), NonStrDim, Dim("w"), Dim("l")>>]}

DimPages ==
    [script : {"ok"}, content_ok : {TRUE},
     set_items : SeqsUpTo(SetItemPool, MaxSetItems),
     simple_is_list : BOOLEAN, simple_items : SimpleItemLists,
     accordion : Accordions]
    \cup [script : {"absent", "not_json", "ok"}, content_ok : {FALSE},
          set_items : {<<DimItem(<<"A">>, <<Dim("x")>>)>>},
          simple_is_list : {TRUE}, simple_items : {<<>>},
          accordion : {[kind |-> "missing", dims |-> <<>>]}]

InitDim ==
    /\ dim_page \in DimPages
    /\ dim_out = [done |-> FALSE, empty |-> TRUE, json |-> <<>>, consulted |-> {},
                  raised |-> FALSE]
    /\ Parked("dim")

ExtractDimensions ==
    /\ ~dim_out.done
    /\ dim_out' = extract_dimensions(dim_page)
    /\ UNCHANGED dim_page
    /\ Frame("dim")

SpecDim == InitDim /\ [][ExtractDimensions]_vars

\* the entry an item stands for: a dict with a name whose first three
\* dimensions hold a non-empty string
ItemYields(item) ==
    /\ item.is_dict
    /\ item.name # <<>>
    /\ \E k \in 1..Len(item.dims) : k <= 3 /\ item.dims[k].is_str /\ item.dims[k].text # ""

\* a list of items yields an entry within its first three items
ListYields(items) == \E i \in 1..Len(items) : i <= 3 /\ ItemYields(items[i])

SetIncludesYields == ListYields(dim_page.set_items)

SimpleItemsYields == dim_page.simple_is_list /\ ListYields(dim_page.simple_items)

AccordionYields ==
    /\ dim_page.accordion.kind = "dict"
    /\ \E k \in 1..Len(dim_page.accordion.dims) :
          k <= 3 /\ dim_page.accordion.dims[k].is_str /\ dim_page.accordion.dims[k].text # ""

\* every entry of the returned dict is an item among the first three of items
EntriesFrom(items) ==
    \A e \in 1..Len(dim_out.json) :
        \E i \in 1..Len(items) :
            /\ i <= 3
            /\ ItemYields(items[i])
            /\ Lower(items[i].name) = dim_out.json[e].key
            /\ \A v \in 1..Len(dim_out.json[e].value) :
                  \E k \in 1..Len(items[i].dims) :
                      k <= 3 /\ items[i].dims[k] = Dim(dim_out.json[e].value[v])

\* C9: extract_dimensions reads simpleItems only when setIncludes yielded no
\* entry and the accordion only when neither did; a non-empty result holds
\* entries of the first source that yields and of no other; the result is ''
\* when no source yields or the App script is absent or unparsable; at most
\* 3 items and 3 dimension strings per item are returned; and when nothing
\* raises, a yielding source gives a non-empty result.
C9_DimensionsPriority ==
    dim_out.done =>
        /\ "simpleItems" \in dim_out.consulted => ~SetIncludesYields
        /\ "accordion" \in dim_out.consulted => ~SetIncludesYields /\ ~SimpleItemsYields
        /\ ~dim_out.empty =>
              /\ dim_page.script = "ok"
              /\ IF SetIncludesYields THEN EntriesFrom(dim_page.set_items)
                 ELSE IF SimpleItemsYields THEN EntriesFrom(dim_page.simple_items)
                 ELSE /\ AccordionYields
                      /\ Len(dim_out.json) = 1
                      /\ dim_out.json[1].key = <<"d","i","m","e","n","s","i","o","n","s">>
                      /\ \A v \in 1..Len(dim_out.json[1].value) :
                            \E k \in 1..Len(dim_page.accordion.dims) :
                                k <= 3 /\ dim_page.accordion.dims[k]
                                            = Dim(dim_out.json[1].value[v])
        /\ (dim_page.script # "ok"
              \/ (~SetIncludesYields /\ ~SimpleItemsYields /\ ~AccordionYields))
              => dim_out.empty
        /\ Len(dim_out.json) <= 3
        /\ \A e \in 1..Len(dim_out.json) :
              Len(dim_out.json[e].value) \in 1..3
        /\ (~dim_out.raised /\ dim_page.script = "ok"
              /\ (SetIncludesYields \/ SimpleItemsYields \/ AccordionYields))
              => ~dim_out.empty

\* setIncludes has four items and yields nothing within the first three, so
\* the result comes from simpleItems, cut to three items
C9_Witness ==
    /\ dim_out.done
    /\ Len(dim_page.set_items) = 4
    /\ ItemYields(dim_page.set_items[4])
    /\ ~SetIncludesYields
    /\ Len(dim_page.simple_items) = 4
    /\ dim_out.consulted = {"setIncludes", "simpleItems"}
    /\ Len(dim_out.json) = 1
    /\ dim_out.json[1].key = <<"d">>
    /\ dim_out.json[1].value = <<"z">>

(***************************************************************************)
(* cymax_scraper/sitemap.py: is_product_url                                *)
(***************************************************************************)
MinUrlLen == 50

skip_words ==
    {<<"s","i","t","e","m","a","p">>, <<"b","l","o","g">>, <<"n","e","w","s">>,
     <<"a","b","o","u","t">>, <<"c","o","n","t","a","c","t">>,
     <<"p","o","l","i","c","y">>, <<"p","r","i","v","a","c","y">>, <<"x","m","l">>}

\* an argument of is_product_url: a string, or None
Str(text) == [is_none |-> FALSE, text |-> text]

None == [is_none |-> TRUE, text |-> <<>>]

\* a length test that is off by one
Mut_is_product_url(u) ==
    IF u.is_none \/ u.text = <<>> \/ Len(u.text) <= MinUrlLen THEN FALSE
    ELSE LET url_lower == Lower(u.text)
         IN  /\ (EndsWith(url_lower, <<".","h","t","m","l">>)
                  \/ EndsWith(url_lower, <<".","h","t","m">>))
             /\ Contains(url_lower, <<"c","y","m","a","x",".","c","o","m">>)
             /\ ~\E skip \in skip_words : Contains(url_lower, skip)

is_product_url(u) ==
    IF u.is_none \/ u.text = <<>> \/ Len(u.text) < MinUrlLen THEN FALSE
    ELSE LET url_lower == Lower(u.text)
         IN  /\ (EndsWith(url_lower, <<".","h","t","m","l">>)
                  \/ EndsWith(url_lower, <<".","h","t","m">>))
             /\ Contains(url_lower, <<"c","y","m","a","x",".","c","o","m">>)
             /\ ~\E skip \in skip_words : Contains(url_lower, skip)

\* the longest run of '-' that pads a URL of the model
MaxPad == 28

CyHosts ==
    {<<"w","w","w",".","c","y","m","a","x",".","c","o","m">>,
     <<"W","W","W",".","C","y","m","a","x",".","C","O","M">>,
     <<"w","w","w",".","o","t","h","e","r",".","o","r","g">>}

\* a word put into the path: none, a harmless one, or a denylisted one
CyWords ==
    skip_words \cup {<<>>, <<"s","o","f","a">>, <<"B","l","o","g">>, <<"X","M","L">>}

CyExtensions ==
    {<<".","h","t","m","l">>, <<".","h","t","m">>, <<".","H","T","M","L">>,
     <<".","H","t","m">>, <<".","p","h","p">>, <<>>, <<".","h","t","m","l","x">>,
     <<".","h","t","m","l","/">>}

\* "https://" host "/" [ "cymax.com/" ] word "-"*pad "p" extension
CyCompose(c) ==
    <<"h","t","t","p","s",":","/","/">> \o c.host \o <<"/">>
    \o (IF c.cymax_in_path THEN <<"c","y","m","a","x",".","c","o","m","/">> ELSE <<>>)
    \o c.word \o [i \in 1..c.pad |-> "-"] \o <<"p">> \o c.ext

CyParts ==
    [kind : {"url"}, host : CyHosts, cymax_in_path : BOOLEAN, word : CyWords,
     pad : 10..MaxPad, ext : CyExtensions]
    \cup [kind : {"empty", "none"}, host : {<<>>}, cymax_in_path : {FALSE},
          word : {<<>>}, pad : {0}, ext : {<<>>}]

InitCymax ==
    /\ cy_parts \in CyParts
    /\ cy_url = IF cy_parts.kind = "none" THEN None
                ELSE IF cy_parts.kind = "empty" THEN Str(<<>>)
                ELSE Str(CyCompose(cy_parts))
    /\ cy_result = "unset"
    /\ Parked("cymax")

IsProductUrl ==
    /\ cy_result = "unset"
    /\ cy_result' = PyBool(is_product_url(cy_url))
    /\ UNCHANGED <<cy_parts, cy_url>>
    /\ Frame("cymax")

SpecCymax == InitCymax /\ [][IsProductUrl]_vars

\* C10: is_product_url is True exactly for a URL of at least 50 characters
\* that ends in .html or .htm and contains cymax.com (both in any letter
\* case) and contains no denylisted word in any letter case; it is False for
\* the empty string and for None.
C10_ProductUrlIff ==
    cy_result # "unset" =>
        cy_result = PyBool(
            /\ cy_parts.kind = "url"
            /\ Len(cy_url.text) >= 50
            /\ cy_parts.ext \in {<<".","h","t","m","l">>, <<".","h","t","m">>,
                                  <<".","H","T","M","L">>, <<".","H","t","m">>}
            /\ (cy_parts.cymax_in_path \/ cy_parts.host[5] \in {"c", "C"})
            /\ cy_parts.word \in {<<>>, <<"s","o","f","a">>})

\* a URL of exactly 50 characters on the cymax host, ending in ".HTML", is a
\* product URL
C10_Witness ==
    /\ cy_result = "True"
    /\ Len(cy_url.text) = 50
    /\ cy_parts.ext = <<".","H","T","M","L">>
    /\ cy_parts.word = <<"s","o","f","a">>

(***************************************************************************)
(* ProductFetcher.parse_product_page_with_check, with the extractors it    *)
(* calls: _extract_json_ld_data, extract_main_images, extract_highlights,  *)
(* extract_dimensions and extract_bundle_products                          *)
(***************************************************************************)
MaxQuickCheckScripts == 3

MaxHighlights == 5

MaxImages == 10

\* a JSON value under a key: the key is missing, or holds null, a string or a
\* small number
JMissing == [t |-> "missing", s |-> <<>>, n |-> 0]

JNull == [t |-> "null", s |-> <<>>, n |-> 0]

JStr(s) == [t |-> "str", s |-> s, n |-> 0]

JNum(n) == [t |-> "num", s |-> <<>>, n |-> n]

\* Python truthiness of the value d.get(key)
Truthy(v) ==
    CASE v.t = "str" -> v.s # <<>>
      [] v.t = "num" -> v.n # 0
      [] OTHER -> FALSE

\* d.get(key, default)
Get(v, default) == IF v.t = "missing" THEN default ELSE v

\* str(v) of a value that is present
PyStr(v) ==
    CASE v.t = "str" -> v.s
      [] v.t = "num" -> <<Digits[v.n + 1]>>
      [] OTHER -> <<"N","o","n","e">>

RECURSIVE Join(_, _)
\* sep.join(strings)
Join(strings, sep) ==
    IF strings = <<>> THEN <<>>
    ELSE IF Len(strings) = 1 THEN strings[1]
    ELSE strings[1] \o sep \o Join(Tail(strings), sep)

\* the '@type' of a JSON-LD item: a string, a list of strings, or missing
TypeStr(name) == [kind |-> "str", names |-> <<name>>]

TypeList(names) == [kind |-> "list", names |-> names]

TypeMissing == [kind |-> "missing", names |-> <<>>]

\* str(item.get('@type', ''))
TypeRepr(ty) ==
    CASE ty.kind = "missing" -> <<>>
      [] ty.kind = "str" -> ty.names[1]
      [] OTHER -> <<"[">> \o Join([i \in 1..Len(ty.names) |->
                                      <<"'">> \o ty.names[i] \o <<"'">>], <<",", " ">>)
                  \o <<"]">>

\* lines 316-317: the item is a Product or a ProductGroup
IsProductType(ty) ==
    \/ ty.kind = "str" /\ ty.names[1] \in {<<"P","r","o","d","u","c","t">>, <<"P","r","o","d","u","c","t","G","r","o","u","p">>}
    \/ ty.kind = "list"
       /\ \E i \in 1..Len(ty.names) : ty.names[i] \in {<<"P","r","o","d","u","c","t">>, <<"P","r","o","d","u","c","t","G","r","o","u","p">>}

\* item['brand']: missing, a dict with a 'name', or another value
BrandMissing == [kind |-> "missing", v |-> JMissing]

BrandDict(name) == [kind |-> "dict", v |-> name]

BrandValue(v) == [kind |-> "value", v |-> v]

\* item['offers']: missing, a dict with 'price' and 'availability', or
\* something that is not a dict (a list of offers)
OffersMissing == [kind |-> "missing", price |-> JMissing, availability |-> JMissing]

OffersDict(price, availability) ==
    [kind |-> "dict", price |-> price, availability |-> availability]

OffersList == [kind |-> "other", price |-> JMissing, availability |-> JMissing]

\* an element of itemListElement: a dict whose 'item' has a name and an '@id',
\* or something that is not a dict
Crumb(name, id) == [is_dict |-> TRUE, name |-> name, id |-> id]

NotDictCrumb == [is_dict |-> FALSE, name |-> JMissing, id |-> JMissing]

\* an item of a JSON-LD script
LdItem(ty, sku, mpn, color, image, brand, offers, elements) ==
    [is_dict |-> TRUE, type |-> ty, sku |-> sku, mpn |-> mpn, color |-> color,
     image |-> image, brand |-> brand, offers |-> offers, itemListElement |-> elements]

NotDictLdItem ==
    [is_dict |-> FALSE, type |-> TypeMissing, sku |-> JMissing, mpn |-> JMissing,
     color |-> JMissing, image |-> JMissing, brand |-> BrandMissing,
     offers |-> OffersMissing, itemListElement |-> <<>>]

\* lines 274-284
EmptyProductData ==
    [sku |-> <<>>, mpn |-> <<>>, brand |-> <<>>, price |-> <<>>, image |-> <<>>,
     color |-> <<>>, status |-> <<>>, category |-> <<>>, category_url |-> <<>>]

\* lines 328-332
BrandOf(item, old) ==
    IF item.brand.kind \in {"missing", "dict"}
    THEN PyStr(Get(item.brand.v, JStr(<<>>)))
    ELSE IF Truthy(item.brand.v) THEN PyStr(item.brand.v) ELSE old

\* lines 339-345
StatusOf(item, old) ==
    IF item.offers.kind = "other" THEN old
    ELSE LET availability == Lower(PyStr(Get(item.offers.availability, JStr(<<>>))))
         IN  IF Contains(availability, <<"i","n","s","t","o","c","k">>) THEN <<"A","c","t","i","v","e">>
             ELSE IF Contains(availability, <<"o","u","t","o","f","s","t","o","c","k">>)
                     \/ Contains(availability, <<"s","o","l","d","o","u","t">>)
                  THEN <<"O","u","t"," ","o","f"," ","S","t","o","c","k">>
                  ELSE IF Contains(availability, <<"p","r","e","o","r","d","e","r">>) THEN <<"A","c","t","i","v","e">>
                       ELSE old

\* lines 319-345: what a Product item writes into product_data
ProductFields(item, pd) ==
    [pd EXCEPT
        !.sku = IF Truthy(item.sku) THEN PyStr(item.sku) ELSE @,
        !.mpn = IF Truthy(item.mpn) THEN PyStr(item.mpn) ELSE @,
        !.color = IF Truthy(item.color) THEN PyStr(item.color) ELSE @,
        !.image = IF Truthy(item.image) THEN PyStr(item.image) ELSE @,
        !.brand = BrandOf(item, @),
        !.price = IF item.offers.kind # "other" /\ Truthy(item.offers.price)
                  THEN PyStr(item.offers.price) ELSE @,
        !.status = StatusOf(item, @)]

\* lines 352-355: element.get and name.lower() raise AttributeError on an
\* element that is not a dict and on a name that is not a string
BreadcrumbRaises(item) ==
    \E i \in 1..Len(item.itemListElement) :
        LET element == item.itemListElement[i]
        IN  ~element.is_dict \/ (Truthy(element.name) /\ element.name.t # "str")

RECURSIVE CrumbNames(_)
\* lines 357-358: the names that are not home, shop or all
CrumbNames(elements) ==
    IF elements = <<>> THEN <<>>
    ELSE (IF Truthy(Head(elements).name)
             /\ Lower(Head(elements).name.s) \notin {<<"h","o","m","e">>, <<"s","h","o","p">>, <<"a","l","l">>}
          THEN <<Head(elements).name.s>> ELSE <<>>)
         \o CrumbNames(Tail(elements))

RECURSIVE CrumbUrls(_)
\* lines 359-360
CrumbUrls(elements) ==
    IF elements = <<>> THEN <<>>
    ELSE (IF Truthy(Head(elements).id) THEN <<PyStr(Head(elements).id)>> ELSE <<>>)
         \o CrumbUrls(Tail(elements))

\* lines 348-368: what a BreadcrumbList item that iterates cleanly writes
BreadcrumbFields(item, pd) ==
    LET names == CrumbNames(item.itemListElement)
        categories == IF Len(names) > 1 THEN SubSeq(names, 1, Len(names) - 1) ELSE names
        urls == CrumbUrls(item.itemListElement)
    IN  [pd EXCEPT
            !.category = IF categories # <<>> THEN Join(categories, <<" ", ">", " ">>)
                         ELSE @,
            !.category_url = IF Len(urls) >= 2 THEN urls[Len(urls) - 1] ELSE @]

RECURSIVE ProcessItems(_, _)
\* lines 309-368: the loop over the items of one script; an exception leaves
\* the loop and keeps what was written so far
ProcessItems(items, pd) ==
    IF items = <<>> THEN pd
    ELSE LET item == Head(items)
         IN  IF ~item.is_dict THEN ProcessItems(Tail(items), pd)
             ELSE IF IsProductType(item.type)
                  THEN ProcessItems(Tail(items), ProductFields(item, pd))
                  ELSE IF item.type = TypeStr(<<"B","r","e","a","d","c","r","u","m","b","L","i","s","t">>)
                       THEN IF BreadcrumbRaises(item) THEN pd
                            ELSE ProcessItems(Tail(items), BreadcrumbFields(item, pd))
                       ELSE ProcessItems(Tail(items), pd)

\* a ld+json script: its cleaned text is empty, is not JSON, or parses to a
\* dict, a list or another value
LdScript(kind, items) == [kind |-> kind, items |-> items]

\* lines 302-307
ScriptItems(script) == IF script.kind \in {"dict", "list"} THEN script.items ELSE <<>>

RECURSIVE ProcessScripts(_, _)
ProcessScripts(scripts, pd) ==
    IF scripts = <<>> THEN pd
    ELSE ProcessScripts(Tail(scripts), ProcessItems(ScriptItems(Head(scripts)), pd))

_extract_json_ld_data(response) == ProcessScripts(response.ld_scripts, EmptyProductData)

\* lines 385-412: the quick check for Product JSON-LD in the first three scripts
QuickProductCheck(response) ==
    \E i \in 1..Min(MaxQuickCheckScripts, Len(response.ld_scripts)) :
        LET script == response.ld_scripts[i]
        IN  /\ script.kind \in {"dict", "list"}
            /\ \E k \in 1..Len(script.items) :
                  /\ script.items[k].is_dict
                  /\ Contains(TypeRepr(script.items[k].type), <<"P","r","o","d","u","c","t">>)

\* json.dumps(value, indent=2) of a list of strings nested at depth indent
Quoted(s) == <<"\"">> \o s \o <<"\"">>

Spaces(n) == [i \in 1..n |-> " "]

DumpsStrings(strings, indent) ==
    <<"[", "\n">>
    \o Join([i \in 1..Len(strings) |-> Spaces(indent + 2) \o Quoted(strings[i])],
            <<",", "\n">>)
    \o <<"\n">> \o Spaces(indent) \o <<"]">>

\* json.dumps(result, indent=2) of the dimensions dict, whose dimension
\* strings are one character long
DumpsDimensions(result) ==
    <<"{", "\n">>
    \o Join([i \in 1..Len(result) |->
                Spaces(2) \o Quoted(result[i].key) \o <<":", " ">>
                \o DumpsStrings([k \in 1..Len(result[i].value) |->
                                    <<result[i].value[k]>>], 2)],
            <<",", "\n">>)
    \o <<"\n", "}">>

\* json.dumps(highlights, indent=2)
DumpsHighlights(highlights) ==
    <<"[", "\n">>
    \o Join([i \in 1..Len(highlights) |->
                Spaces(2) \o <<"{", "\n">>
                \o Spaces(4) \o Quoted(<<"t","i","t","l","e">>) \o <<":", " ">>
                \o Quoted(highlights[i].title) \o <<",", "\n">>
                \o Spaces(4) \o Quoted(<<"d","e","s","c">>) \o <<":", " ">>
                \o Quoted(highlights[i].desc) \o <<"\n">>
                \o Spaces(2) \o <<"}">>],
            <<",", "\n">>)
    \o <<"\n", "]">>

\* what an extractor call ends in: a returned string or an exception
Returns(value) == [raised |-> FALSE, value |-> value]

Raises == [raised |-> TRUE, value |-> <<>>]

RECURSIVE TitledHighlights(_)
\* lines 719-726
TitledHighlights(items) ==
    IF items = <<>> THEN <<>>
    ELSE (IF Truthy(Head(items).title)
          THEN <<[title |-> StripChars(Head(items).title.s, Whitespace),
                  desc |-> IF Truthy(Head(items).desc)
                           THEN StripChars(Head(items).desc.s, Whitespace) ELSE <<>>]>>
          ELSE <<>>)
         \o TitledHighlights(Tail(items))

extract_highlights(response) ==
    LET highlights == TitledHighlights(PySlice(response.highlights, 0, MaxHighlights))
    IN  Returns(IF highlights # <<>> THEN DumpsHighlights(highlights) ELSE <<>>)

\* an entry of content.gallery
Img(original) == [is_dict |-> TRUE, original |-> original]

NotDictImg == [is_dict |-> FALSE, original |-> JMissing]

RECURSIVE ImageUrls(_)
\* lines 744-748
ImageUrls(gallery) ==
    IF gallery = <<>> THEN <<>>
    ELSE (IF Head(gallery).is_dict /\ Truthy(Head(gallery).original)
          THEN <<Head(gallery).original>> ELSE <<>>)
         \o ImageUrls(Tail(gallery))

\* '\n'.join(image_urls) is outside the try block and raises TypeError on an
\* element that is not a string
extract_main_images(response) ==
    LET image_urls ==
            IF response.app.script = "ok" /\ response.app.gallery_is_list
            THEN ImageUrls(PySlice(response.app.gallery, 0, MaxImages))
            ELSE <<>>
    IN  IF image_urls = <<>> THEN Returns(<<>>)
        ELSE IF \E i \in 1..Len(image_urls) : image_urls[i].t # "str" THEN Raises
        ELSE Returns(Join([i \in 1..Len(image_urls) |-> image_urls[i].s], <<"\n">>))

\* extract_dimensions and the string it returns
DimensionsString(response) ==
    LET r == extract_dimensions(response.app.dim)
    IN  Returns(IF r.empty THEN <<>> ELSE DumpsDimensions(r.json))

\* lines 452-468: try: item[column] = extractor(response); except: item[column] = ''
TryExtract(r) == IF r.raised THEN <<>> ELSE r.value

Columns ==
    {"Ref Product URL", "Ref Product ID", "Ref Variant ID", "Ref Category",
     "Ref Category URL", "Ref Brand Name", "Ref Product Name", "Ref SKU", "Ref MPN",
     "Ref GTIN", "Ref Price", "Ref Main Image", "Ref Quantity", "Ref Group Attr 1",
     "Ref Group Attr 2", "Ref Images", "Ref Dimensions", "Ref Status",
     "Ref Highlights", "Date Scrapped"}

ChunkColumns == {"Chunk ID", "Total Chunks"}

\* lines 416-473: the item that is yielded
BuildItem(response, spider, now) ==
    LET json_data == _extract_json_ld_data(response)
    IN  [c \in Columns \cup (IF spider.chunk_mode THEN ChunkColumns ELSE {}) |->
            CASE c = "Ref Product URL" -> response.url
              [] c = "Ref Product ID" ->
                    IF Truthy(response.product_id)
                    THEN StripChars(response.product_id.s, Whitespace) ELSE <<>>
              [] c = "Ref Category" -> json_data.category
              [] c = "Ref Category URL" -> json_data.category_url
              [] c = "Ref Brand Name" -> json_data.brand
              [] c = "Ref Product Name" ->
                    IF Truthy(response.product_name)
                    THEN StripChars(response.product_name.s, Whitespace) ELSE <<>>
              [] c = "Ref SKU" -> json_data.sku
              [] c = "Ref MPN" -> json_data.mpn
              [] c = "Ref Price" -> json_data.price
              [] c = "Ref Main Image" -> json_data.image
              [] c = "Ref Group Attr 1" -> json_data.color
              [] c = "Ref Images" -> TryExtract(extract_main_images(response))
              [] c = "Ref Dimensions" -> TryExtract(DimensionsString(response))
              [] c = "Ref Status" -> json_data.status
              [] c = "Ref Highlights" -> TryExtract(extract_highlights(response))
              [] c = "Date Scrapped" -> now
              [] c = "Chunk ID" -> <<Digits[spider.chunk_id + 1]>>
              [] c = "Total Chunks" -> <<Digits[spider.total_chunks + 1]>>
              [] OTHER -> <<>>]

\* how often the model lets the same URL be answered
MaxResponses == 2

\* datetime.now().strftime(...) at the moment of the call
Timestamps == {<<"2","0","2","5","-","0","1","-","0","1"," ","0","0",":","0","0",":","0","0">>, <<"2","0","2","5","-","0","1","-","0","1"," ","0","0",":","0","0",":","0","1">>}

BaseProduct ==
    LdItem(TypeStr(<<"P","r","o","d","u","c","t">>), JStr(<<"S","1">>), JMissing, JMissing, JMissing,
           BrandMissing, OffersMissing, <<>>)

\* Product items that differ in their plain fields, in '@type', in the brand
\* and in the offers
ProductItems ==
    {LdItem(TypeStr(<<"P","r","o","d","u","c","t">>), sku, mpn, color, image, BrandMissing, OffersMissing, <<>>) :
        sku \in {JMissing, JNull, JStr(<<"S","1">>)}, mpn \in {JMissing, JNum(7)},
        color \in {JStr(<<>>), JStr(<<"R","e","d">>)}, image \in {JMissing, JStr(<<"i",".","j","p","g">>)}}
    \cup {[BaseProduct EXCEPT !.type = ty] :
            ty \in {TypeStr(<<"P","r","o","d","u","c","t","G","r","o","u","p">>), TypeList(<<<<"T","h","i","n","g">>, <<"P","r","o","d","u","c","t">>>>),
                    TypeMissing, TypeStr(<<"O","r","g","a","n","i","z","a","t","i","o","n">>)}}
    \cup {[BaseProduct EXCEPT !.brand = b] :
            b \in {BrandValue(JNull), BrandValue(JStr(<<>>)), BrandValue(JStr(<<"A","c","m","e">>)),
                   BrandDict(JMissing), BrandDict(JStr(<<>>)), BrandDict(JStr(<<"A","c","m","e">>)),
                   BrandDict(JNull)}}
    \cup {[BaseProduct EXCEPT !.offers = o] :
            o \in {OffersList}
                  \cup {OffersDict(price, availability) :
                          price \in {JMissing, JNum(0), JStr(<<"9",".","5">>)},
                          availability \in {JMissing, JNull, JStr(<<"h","t","t","p",":","/","/","s","c","h","e","m","a",".","o","r","g","/","I","n","S","t","o","c","k">>),
                                            JStr(<<"O","u","t","O","f","S","t","o","c","k">>), JStr(<<"S","o","l","d","O","u","t">>),
                                            JStr(<<"P","r","e","O","r","d","e","r">>), JStr(<<"D","i","s","c","o","n","t","i","n","u","e","d">>)}}}

Breadcrumb(elements) ==
    LdItem(TypeStr(<<"B","r","e","a","d","c","r","u","m","b","L","i","s","t">>), JMissing, JMissing, JMissing, JMissing,
           BrandMissing, OffersMissing, elements)

LongTrail ==
    Breadcrumb(<<Crumb(JStr(<<"H","o","m","e">>), JStr(<<"/">>)), Crumb(JStr(<<"L","i","v","i","n","g">>), JStr(<<"/","l">>)),
                 Crumb(JStr(<<"S","o","f","a","s">>), JStr(<<"/","l","/","s">>)), Crumb(JStr(<<"S","o","f","a"," ","X">>), JMissing)>>)

RaisingTrail == Breadcrumb(<<Crumb(JStr(<<"L","i","v","i","n","g">>), JStr(<<"/","l">>)), NotDictCrumb>>)

\* the ld+json scripts a page may carry
LdScriptLists ==
    {<<>>}
    \cup {<<LdScript("dict", <<p>>)>> : p \in ProductItems}
    \cup {<<LdScript("empty", <<>>), LdScript("not_json", <<>>), LdScript("scalar", <<>>),
            LdScript("dict", <<BaseProduct>>)>>,
          <<LdScript("list", <<NotDictLdItem, BaseProduct, LongTrail>>)>>,
          <<LdScript("dict", <<[BaseProduct EXCEPT !.brand = BrandValue(JStr(<<"A","c","m","e">>))]>>),
            LdScript("dict", <<BaseProduct>>)>>,
          <<LdScript("dict", <<LongTrail>>)>>,
          <<LdScript("dict", <<Breadcrumb(<<Crumb(JStr(<<"H","o","m","e">>), JStr(<<"/">>))>>)>>)>>,
          <<LdScript("dict", <<Breadcrumb(<<Crumb(JStr(<<"S","o","f","a","s">>), JNull)>>)>>)>>,
          <<LdScript("dict", <<Breadcrumb(<<Crumb(JNum(5), JStr(<<"/","l">>))>>)>>)>>,
          <<LdScript("list", <<RaisingTrail, BaseProduct>>)>>,
          <<LdScript("list", <<BaseProduct, RaisingTrail>>), LdScript("dict", <<LongTrail>>)>>}

Highlight(title, desc) == [title |-> title, desc |-> desc]

\* the data-id, the h1 and the highlight blocks of the page
HtmlParts ==
    {[product_id |-> JMissing, product_name |-> JMissing, highlights |-> <<>>],
     [product_id |-> JStr(<<" ","1","2"," ">>), product_name |-> JStr(<<" ","S","o","f","a"," ","X"," ">>),
      highlights |-> <<Highlight(JMissing, JStr(<<"d","0">>)), Highlight(JStr(<<" ","t","1">>), JMissing),
                       Highlight(JStr(<<"t","2">>), JStr(<<"d","2"," ">>)), Highlight(JStr(<<"t","3">>), JMissing),
                       Highlight(JStr(<<"t","4">>), JMissing), Highlight(JStr(<<"t","5">>), JMissing)>>],
     [product_id |-> JStr(<<" ">>), product_name |-> JMissing,
      highlights |-> <<Highlight(JMissing, JStr(<<"d","0">>))>>]}

DimSource(script, set_items, accordion) ==
    [script |-> script, content_ok |-> TRUE, set_items |-> set_items,
     simple_is_list |-> TRUE, simple_items |-> <<>>, accordion |-> accordion]

\* the hypernova App script of the page, as each extractor reads it
AppScript(script, gallery_is_list, gallery, dim, simple_items) ==
    [script |-> script, gallery_is_list |-> gallery_is_list, gallery |-> gallery,
     dim |-> dim, bundle |-> [script |-> script, simple_items |-> simple_items]]

AppScripts ==
    {AppScript("absent", TRUE, <<>>,
               DimSource("absent", <<>>, [kind |-> "missing", dims |-> <<>>]), <<>>),
     AppScript("not_json", TRUE, <<>>,
               DimSource("not_json", <<>>, [kind |-> "missing", dims |-> <<>>]), <<>>),
     AppScript("ok", TRUE,
               <<Img(JStr(<<"u","1">>)), NotDictImg, Img(JMissing), Img(JStr(<<"u","2">>))>>,
               DimSource("ok", <<DimItem(<<"A">>, <<Dim("x"), Dim("y")>>)>>,
                         [kind |-> "missing", dims |-> <<>>]),
               <<UrlItem(Abs("b")), UrlItem(Abs("a")), UrlItem(Abs("c"))>>),
     AppScript("ok", TRUE, [i \in 1..11 |-> Img(JStr(<<"u", Digits[(i % 10) + 1]>>))],
               DimSource("ok", <<>>, [kind |-> "dict", dims |-> <<Dim("h")>>]),
               <<UrlItem(Rel("e")), UrlItem(Abs("b"))>>),
     AppScript("ok", TRUE, <<Img(JStr(<<"u","1">>)), Img(JNum(5))>>,
               DimSource("ok", <<>>, [kind |-> "missing", dims |-> <<>>]), <<>>),
     AppScript("ok", FALSE, <<>>,
               DimSource("ok", <<BadDimensionItem(<<"C">>)>>,
                         [kind |-> "dict", dims |-> <<Dim("h")>>]), <<>>)}

Responses ==
    {[url |-> Abs("a"), ld_scripts |-> ld, product_id |-> html.product_id,
      product_name |-> html.product_name, highlights |-> html.highlights, app |-> app] :
        ld \in LdScriptLists, html \in HtmlParts, app \in AppScripts}

InitPage ==
    /\ page_response \in Responses
    /\ page_spider \in {[chunk_mode |-> FALSE, chunk_id |-> 0, total_chunks |-> 1],
                   [chunk_mode |-> TRUE, chunk_id |-> 1, total_chunks |-> 2]}
    /\ json_ld_cache = {}
    /\ parse_gen = [pos |-> "idle", has_product_json |-> FALSE, idx |-> 0, responses |-> 0]
    /\ yielded_items = <<>>
    /\ yielded_requests = <<>>
    /\ _processed_bundle_urls = {}
    /\ Parked("page")

\* Scrapy calls parse_product_page_with_check on a response and pulls the
\* first value out of the generator: lines 379-475, up to "yield item"
ParseProductPageWithCheck ==
    /\ parse_gen.pos \in {"idle", "done"}
    /\ parse_gen.responses < MaxResponses
    /\ LET cached == {e \in json_ld_cache : e.key = page_response.url}
           has_product_json ==
               IF cached # {} THEN \E e \in cached : e.value
               ELSE QuickProductCheck(page_response)
       IN  /\ json_ld_cache' = json_ld_cache
                \cup {[key |-> page_response.url, value |-> has_product_json]}
           /\ parse_gen' = [pos |-> "item", has_product_json |-> has_product_json,
                            idx |-> 0, responses |-> parse_gen.responses + 1]
    /\ \E now \in Timestamps :
          yielded_items' = Append(yielded_items, BuildItem(page_response, page_spider, now))
    /\ UNCHANGED <<page_response, page_spider, yielded_requests, _processed_bundle_urls>>
    /\ Frame("page")

\* Scrapy pulls the next value: lines 477-479, the generator runs on inside
\* extract_bundle_products to the next request or to its end
ResumeParseGenerator ==
    /\ parse_gen.pos = "item"
    /\ LET items == IF parse_gen.has_product_json THEN BundleItems(page_response.app.bundle)
                    ELSE <<>>
           idx   == parse_gen.idx
       IN  IF idx >= Len(items)
           THEN /\ parse_gen' = [parse_gen EXCEPT !.pos = "done"]
                /\ UNCHANGED <<yielded_requests, _processed_bundle_urls>>
           ELSE LET step == BundleLoopBody(items[idx + 1], page_response.url,
                                           _processed_bundle_urls)
                IN  /\ parse_gen' = [parse_gen EXCEPT
                          !.idx = idx + 1,
                          !.pos = IF step.do = "raise" THEN "done" ELSE "item"]
                    /\ _processed_bundle_urls' =
                          IF step.do = "continue" THEN _processed_bundle_urls
                          ELSE _processed_bundle_urls \cup {step.url}
                    /\ yielded_requests' =
                          IF step.do = "yield" THEN Append(yielded_requests, step.url)
                          ELSE yielded_requests
    /\ UNCHANGED <<page_response, page_spider, json_ld_cache, yielded_items>>
    /\ Frame("page")

NextPage == ParseProductPageWithCheck \/ ResumeParseGenerator

SpecPage == InitPage /\ [][NextPage]_vars

\* the items of every ld+json script of the page that parses
LdItems ==
    UNION {{page_response.ld_scripts[j].items[k] :
               k \in 1..Len(page_response.ld_scripts[j].items)} :
           j \in {i \in 1..Len(page_response.ld_scripts) :
                    page_response.ld_scripts[i].kind \in {"dict", "list"}}}

ProductLdItems == {p \in LdItems : p.is_dict /\ IsProductType(p.type)}

PageCrumbs ==
    UNION {{b.itemListElement[k] : k \in 1..Len(b.itemListElement)} :
           b \in {x \in LdItems : x.is_dict /\ x.type = TypeStr(<<"B","r","e","a","d","c","r","u","m","b","L","i","s","t">>)}}

\* some data source of the page holds a value for column c: a non-null,
\* non-empty value under the key or in the element the column is read from
Supplied(c) ==
    CASE c \in {"Ref Product URL", "Date Scrapped"} -> TRUE
      [] c = "Ref Product ID" -> Truthy(page_response.product_id)
      [] c = "Ref Product Name" -> Truthy(page_response.product_name)
      [] c = "Ref Category" -> \E e \in PageCrumbs : Truthy(e.name)
      [] c = "Ref Category URL" -> \E e \in PageCrumbs : Truthy(e.id)
      [] c = "Ref Brand Name" -> \E p \in ProductLdItems : Truthy(p.brand.v)
      [] c = "Ref SKU" -> \E p \in ProductLdItems : Truthy(p.sku)
      [] c = "Ref MPN" -> \E p \in ProductLdItems : Truthy(p.mpn)
      [] c = "Ref Main Image" -> \E p \in ProductLdItems : Truthy(p.image)
      [] c = "Ref Group Attr 1" -> \E p \in ProductLdItems : Truthy(p.color)
      [] c = "Ref Price" -> \E p \in ProductLdItems : Truthy(p.offers.price)
      [] c = "Ref Status" -> \E p \in ProductLdItems : Truthy(p.offers.availability)
      [] c = "Ref Images" ->
            /\ page_response.app.script = "ok"
            /\ \E i \in 1..Len(page_response.app.gallery) :
                  Truthy(page_response.app.gallery[i].original)
      [] c = "Ref Highlights" ->
            \E i \in 1..Len(page_response.highlights) :
                \/ Truthy(page_response.highlights[i].title)
                \/ Truthy(page_response.highlights[i].desc)
      [] c = "Ref Dimensions" ->
            /\ page_response.app.script = "ok"
            /\ \/ \E i \in 1..Len(page_response.app.dim.set_items) :
                     ItemYields(page_response.app.dim.set_items[i])
               \/ \E i \in 1..Len(page_response.app.dim.simple_items) :
                     ItemYields(page_response.app.dim.simple_items[i])
               \/ \E k \in 1..Len(page_response.app.dim.accordion.dims) :
                     page_response.app.dim.accordion.dims[k].is_str
      [] OTHER -> FALSE

\* what the yielded items must look like, over the columns in cols
ItemsDegradeToEmpty(cols) ==
    /\ Len(yielded_items) = parse_gen.responses
    /\ \A i \in 1..Len(yielded_items) :
          LET item == yielded_items[i]
          IN  /\ Columns \subseteq DOMAIN item
              /\ \A c \in cols : ~Supplied(c) => item[c] = <<>>
              /\ extract_main_images(page_response).raised =>
                    /\ item["Ref Images"] = <<>>
                    /\ item["Ref Highlights"] = extract_highlights(page_response).value
                    /\ item["Ref Dimensions"] = DimensionsString(page_response).value

\* C2: every call of parse_product_page_with_check yields exactly one item,
\* which carries all 20 columns; a column for which no data source of the
\* page holds a value is ''; and an exception in extract_main_images leaves
\* Ref Images '' and the other extracted columns as their extractors return
\* them.
C2_OneItemAllColumns == ItemsDegradeToEmpty(Columns)

\* apart from Ref Brand Name the statement holds for every page of the model
ItemsDegradeApartFromBrand == ItemsDegradeToEmpty(Columns \ {"Ref Brand Name"})

\* a Product whose brand is {"name": null} gives the brand column 'None'
NullBrandNamePage ==
    /\ Len(yielded_items) > 0
    /\ ~Supplied("Ref Brand Name")
    /\ yielded_items[1]["Ref Brand Name"] = <<"N","o","n","e">>
    /\ \E p \in ProductLdItems : p.brand = BrandDict(JNull)

(***************************************************************************)
(* cymax_scraper/parser.py: parse_product                                  *)
(***************************************************************************)
StartsWith(s, pre) == Len(pre) <= Len(s) /\ SubSeq(s, 1, Len(pre)) = pre

\* the character classes [A-Z0-9] and [A-Z0-9-]
IdChars == {UpperChars[i] : i \in 1..26} \cup {Digits[i] : i \in 1..10}

MpnChars == IdChars \cup {"-"}

NoMatch == [matched |-> FALSE, group |-> <<>>]

Match(group) == [matched |-> TRUE, group |-> group]

\* how many characters of class stand right before a final ".htm"
RunBeforeHtm(u, class) ==
    LET stem == SubSeq(u, 1, Len(u) - 4)
        runs == {n \in 0..Len(stem) : \A i \in (Len(stem) - n + 1)..Len(stem) : stem[i] \in class}
    IN  CHOOSE n \in runs : \A k \in runs : k <= n

\* re.search(r'/([A-Z0-9]{6,8})\.htm$', url)
UrlIdMatch(u) ==
    IF ~EndsWith(u, <<".","h","t","m">>) THEN NoMatch
    ELSE LET n == RunBeforeHtm(u, IdChars)
             stem == SubSeq(u, 1, Len(u) - 4)
         IN  IF n \in 6..8 /\ Len(stem) > n /\ stem[Len(stem) - n] = "/"
             THEN Match(SubSeq(stem, Len(stem) - n + 1, Len(stem)))
             ELSE NoMatch

\* re.search(r'([A-Z0-9-]{6,20})\.htm$', url)
UrlMpnMatch(u) ==
    IF ~EndsWith(u, <<".","h","t","m">>) THEN NoMatch
    ELSE LET n == RunBeforeHtm(u, MpnChars)
             stem == SubSeq(u, 1, Len(u) - 4)
         IN  IF n >= 6 THEN Match(SubSeq(stem, Len(stem) - Min(n, 20) + 1, Len(stem)))
             ELSE NoMatch

\* re.search(r'"key"\s*:\s*"([^"]{lo,hi})"', raw_json) on a blob that holds
\* value v under the key
BlobMatch(blob, v, lo, hi) ==
    IF blob.present /\ v.t = "str" /\ Len(v.s) >= lo /\ Len(v.s) <= hi
    THEN Match(v.s) ELSE NoMatch

NameMinLen == 10

NameMaxLen == 200

\* an element a selector may find
Elem(text) == [present |-> TRUE, text |-> text]

NoElem == [present |-> FALSE, text |-> <<>>]

\* the loop over selectors: the text of the first element found, stripped
SelectText(elems) ==
    LET found == {i \in 1..Len(elems) : elems[i].present}
    IN  IF found = {} THEN <<>>
        ELSE StripChars(elems[CHOOSE i \in found : \A j \in found : i <= j].text, Whitespace)

\* lines 106-111: the first image element found and its first non-empty attribute
SelectImage(elems) ==
    LET found == {i \in 1..Len(elems) : elems[i].present}
    IN  IF found = {} THEN <<>>
        ELSE LET elem == elems[CHOOSE i \in found : \A j \in found : i <= j]
             IN  IF elem.content # <<>> THEN elem.content
                 ELSE IF elem.src # <<>> THEN elem.src
                 ELSE elem.data_src

RECURSIVE Breadcrumbs(_)
\* lines 65-78: the (text, full_url) pairs kept from the breadcrumb links
Breadcrumbs(links) ==
    IF links = <<>> THEN <<>>
    ELSE LET text == StripChars(Head(links).text, Whitespace)
             href == Head(links).href
         IN  (IF text # <<>> /\ href # <<>> /\ href # <<"/">>
              THEN <<[text |-> text,
                      full_url |->
                          IF StartsWith(href, <<"h","t","t","p">>) THEN href
                          ELSE IF StartsWith(href, <<"/">>)
                               THEN <<"h","t","t","p","s",":","/","/","w","w","w",".","c","y","m","a","x",".","c","o","m">> \o href
                               ELSE <<"h","t","t","p","s",":","/","/","w","w","w",".","c","y","m","a","x",".","c","o","m","/">> \o href]>>
              ELSE <<>>)
             \o Breadcrumbs(Tail(links))

ColourWords ==
    <<<<"g","r","a","y">>, <<"b","e","i","g","e">>, <<"w","h","i","t","e">>, <<"b","l","a","c","k">>, <<"b","r","o","w","n">>, <<"e","s","p","r","e","s","s","o">>,
      <<"g","r","e","e","n">>, <<"g","o","l","d">>>>

\* re.search(r'(Gray|Beige|...)', url, re.I): the leftmost match, as written
\* in the URL
ColourMatch(u) ==
    LET low == Lower(u)
        at(i) == {k \in 1..Len(ColourWords) :
                    /\ i + Len(ColourWords[k]) - 1 <= Len(low)
                    /\ SubSeq(low, i, i + Len(ColourWords[k]) - 1) = ColourWords[k]}
        hits == {i \in 1..Len(u) : at(i) # {}}
    IN  IF hits = {} THEN <<>>
        ELSE LET i == CHOOSE p \in hits : \A q \in hits : p <= q
                 k == CHOOSE a \in at(i) : \A b \in at(i) : a <= b
             IN  SubSeq(u, i, i + Len(ColourWords[k]) - 1)

IsDigit(c) == \E d \in 1..10 : Digits[d] = c

\* re.search(r'(\d{2})\s*["\']', text_content): two digits, optional
\* whitespace, a quote
SizeMatch(text) ==
    LET hits == {i \in 1..(Len(text) - 2) :
                    /\ IsDigit(text[i]) /\ IsDigit(text[i + 1])
                    /\ \E j \in (i + 2)..Len(text) :
                          /\ text[j] \in {"\"", "'"}
                          /\ \A k \in (i + 2)..(j - 1) : text[k] \in Whitespace}
    IN  IF hits = {} THEN <<>>
        ELSE LET i == CHOOSE p \in hits : \A q \in hits : p <= q
             IN  <<text[i], text[i + 1]>>

\* parse_product(html, url), called at time now
parse_product(html, now) ==
    LET blob == html.blob
        product_id_match == BlobMatch(blob, blob.productId, 1, Len(blob.productId.s))
        product_name_match == BlobMatch(blob, blob.productName, NameMinLen, NameMaxLen)
        brand_match == BlobMatch(blob, blob.brandName, 1, Len(blob.brandName.s))
        mpn_match == BlobMatch(blob, blob.manufacturerPartNumbers, 1,
                               Len(blob.manufacturerPartNumbers.s))
        image_match == BlobMatch(blob, blob.productImageURL, 1, Len(blob.productImageURL.s))
        url_id_match == UrlIdMatch(html.url)
        url_mpn_match == UrlMpnMatch(html.url)
        product_id == IF product_id_match.matched THEN product_id_match.group
                      ELSE IF url_id_match.matched THEN url_id_match.group ELSE <<>>
        blob_sku == IF mpn_match.matched THEN mpn_match.group ELSE <<>>
        mpn == IF url_mpn_match.matched THEN url_mpn_match.group ELSE blob_sku
        sku == IF url_mpn_match.matched /\ blob_sku = <<>> THEN url_mpn_match.group
               ELSE blob_sku
        crumbs == Breadcrumbs(html.breadcrumbs)
        product_name == IF product_name_match.matched THEN product_name_match.group
                        ELSE SelectText(html.name_elems)
        brand_name == IF brand_match.matched THEN brand_match.group
                      ELSE SelectText(html.brand_elems)
        price == SelectText(html.price_elems)
        main_image == IF image_match.matched THEN image_match.group
                      ELSE SelectImage(html.image_elems)
        stock_text == Lower(html.text_content)
    IN  [c \in {"Ref Product URL", "Ref Product ID", "Ref Varient ID", "Ref Category",
                "Ref Category URL", "Ref Brand Name", "Ref Product Name", "Ref SKU",
                "Ref MPN", "Ref GTIN", "Ref Price", "Ref Main Image", "Ref Quantity",
                "Ref Group Attr 1", "Ref Group Attr 2", "Ref Status", "Date Scrapped"} |->
            CASE c = "Ref Product URL" -> html.url
              [] c = "Ref Product ID" -> product_id
              [] c = "Ref Varient ID" -> product_id
              [] c = "Ref Category" ->
                    Join([i \in 1..Len(crumbs) |-> crumbs[i].text], <<" ", ">", " ">>)
              [] c = "Ref Category URL" ->
                    IF crumbs # <<>> THEN crumbs[Len(crumbs)].full_url ELSE <<>>
              [] c = "Ref Brand Name" -> brand_name
              [] c = "Ref Product Name" -> product_name
              [] c = "Ref SKU" -> sku
              [] c = "Ref MPN" -> mpn
              [] c = "Ref Price" -> price
              [] c = "Ref Main Image" -> main_image
              [] c = "Ref Quantity" ->
                    IF \/ Contains(stock_text, <<"o","u","t"," ","o","f"," ","s","t","o","c","k">>)
                       \/ Contains(stock_text, <<"s","o","l","d"," ","o","u","t">>)
                       \/ Contains(stock_text, <<"u","n","a","v","a","i","l","a","b","l","e">>)
                    THEN <<"O","u","t"," ","o","f"," ","S","t","o","c","k">> ELSE <<"I","n"," ","S","t","o","c","k">>
              [] c = "Ref Group Attr 1" -> ColourMatch(html.url)
              [] c = "Ref Group Attr 2" -> SizeMatch(html.text_content)
              [] c = "Ref Status" ->
                    IF price # <<>> \/ product_name # <<>> THEN <<"A","c","t","i","v","e">>
                    ELSE <<"I","n","a","c","t","i","v","e">>
              [] c = "Date Scrapped" -> now
              [] OTHER -> <<>>]

\* the window.bvDCC blob of a page
Blob(productId, productName, brandName, mpns, productImageURL) ==
    [present |-> TRUE, productId |-> productId, productName |-> productName,
     brandName |-> brandName, manufacturerPartNumbers |-> mpns,
     productImageURL |-> productImageURL]

NoBlob ==
    [present |-> FALSE, productId |-> JMissing, productName |-> JMissing,
     brandName |-> JMissing, manufacturerPartNumbers |-> JMissing,
     productImageURL |-> JMissing]

\* the longest productName tried in a blob
MaxNameLen == 201

FullBlob ==
    Blob(JStr(<<"P","1","0","0">>), JStr(<<"S","o","f","a"," ","G","r","e","y",".">>), JStr(<<"A","c","m","e">>), JStr(<<"B","M","-","1">>),
         JStr(<<"b",".","j","p","g">>))

\* blobs with every combination of fields missing, and blobs whose name or
\* brand is too short or too long for the pattern
Blobs ==
    {NoBlob}
    \cup {Blob(id, name, brand, mpns, image) :
            id \in {JMissing, JStr(<<"P","1","0","0">>)},
            name \in {JMissing, JStr(<<"S","o","f","a"," ","G","r","e","y",".">>)},
            brand \in {JMissing, JStr(<<"A","c","m","e">>)},
            mpns \in {JMissing, JStr(<<"B","M","-","1">>)},
            image \in {JMissing, JStr(<<"b",".","j","p","g">>)}}
    \cup {[FullBlob EXCEPT !.productName = name] :
            name \in {JStr(<<"S","o","f","a"," ","G","r","e","y">>), JStr([i \in 1..(MaxNameLen - 1) |-> "x"]),
                      JStr([i \in 1..MaxNameLen |-> "x"])}}
    \cup {[FullBlob EXCEPT !.brandName = JStr(<<>>)]}

CymaxUrls ==
    {<<"h","t","t","p","s",":","/","/","w","w","w",".","c","y","m","a","x",".","c","o","m">> \o tail :
        tail \in {<<"/","A","B","C","1","2","3",".","h","t","m">>, <<"/","s","o","f","a","-","A","B","1","2","C","D","3","4",".","h","t","m">>, <<"/","b","l","a","c","k","-","s","o","f","a",".","h","t","m">>,
                  <<"/","A","B","C","1","2","3",".","h","t","m","l">>, <<"/","A","B","C","D","E","F","G","H","I",".","h","t","m">>, <<"/","G","r","a","y","-","s","o","f","a","/","A","B","1","2","3",".","h","t","m">>,
                  <<"/","A","-","B","C","D","E","F","G","H","I","J","K","L","M","N","O","P","Q","R","S","T","U","8",".","h","t","m">>}}

ImgElem(content, src, data_src) ==
    [present |-> TRUE, content |-> content, src |-> src, data_src |-> data_src]

NoImgElem == [present |-> FALSE, content |-> <<>>, src |-> <<>>, data_src |-> <<>>]

\* the other parts of a page: brand and price elements, breadcrumb links, text
OtherParts(brand_elems, price_elems, breadcrumbs, text_content) ==
    [brand_elems |-> brand_elems, price_elems |-> price_elems,
     breadcrumbs |-> breadcrumbs, text_content |-> text_content]

CymaxHtmls ==
    [name_elems : {<<NoElem, NoElem, NoElem, NoElem>>,
                   <<NoElem, Elem(<<>>), Elem(<<"C","h","a","i","r">>), NoElem>>,
                   <<Elem(<<" ","S","o","f","a"," ">>), Elem(<<"C","h","a","i","r">>), NoElem, NoElem>>},
     image_elems : {<<NoImgElem, NoImgElem>>,
                    <<NoImgElem, ImgElem(<<>>, <<>>, <<"d",".","j","p","g">>)>>,
                    <<ImgElem(<<>>, <<"s",".","j","p","g">>, <<"d",".","j","p","g">>), NoImgElem>>},
     other : {OtherParts(<<NoElem, NoElem, NoElem>>, <<NoElem, NoElem, NoElem>>, <<>>,
                         <<"S","o","f","a"," ","8","4"," ","\""," ","w","i","d","e">>),
              OtherParts(<<NoElem, Elem(<<"Z","e","d"," ">>), Elem(<<"Y","p","s">>)>>,
                         <<NoElem, NoElem, Elem(<<" ","$","9"," ">>)>>,
                         <<[text |-> <<"H","o","m","e">>, href |-> <<"/">>],
                           [text |-> <<" ","L","i","v","i","n","g"," ">>, href |-> <<"/","l","i","v","i","n","g">>],
                           [text |-> <<>>, href |-> <<"/","x">>],
                           [text |-> <<"S","o","f","a","s">>, href |-> <<"s","o","f","a","s">>]>>,
                         <<"S","o","l","d"," ","O","u","t"," ","7","'"," ","1","2","'">>),
              OtherParts(<<Elem(<<>>), NoElem, Elem(<<"Y","p","s">>)>>,
                         <<NoElem, NoElem, NoElem>>,
                         <<[text |-> <<"B","e","d","s">>, href |-> <<"h","t","t","p",":","/","/","c",".","x","/","b","e","d","s">>]>>,
                         <<"i","n"," ","s","t","o","c","k">>)}]

CymaxPages ==
    {[url |-> u, blob |-> b, name_elems |-> h.name_elems,
      brand_elems |-> h.other.brand_elems, price_elems |-> h.other.price_elems,
      image_elems |-> h.image_elems, breadcrumbs |-> h.other.breadcrumbs,
      text_content |-> h.other.text_content] :
        u \in CymaxUrls, b \in Blobs, h \in CymaxHtmls}

InitParser ==
    /\ cp_page \in CymaxPages
    /\ cp_out = <<>>
    /\ Parked("parser")

ParseProduct ==
    /\ cp_out = <<>>
    /\ \E now \in Timestamps : cp_out' = <<parse_product(cp_page, now)>>
    /\ UNCHANGED cp_page
    /\ Frame("parser")

SpecParser == InitParser /\ [][ParseProduct]_vars

\* the value the blob holds for a field, if the code's pattern finds one
BlobValue(f) ==
    CASE f \in {"Ref Product ID", "Ref Varient ID"} ->
            BlobMatch(cp_page.blob, cp_page.blob.productId, 1, MaxNameLen)
      [] f = "Ref Product Name" ->
            BlobMatch(cp_page.blob, cp_page.blob.productName, NameMinLen, NameMaxLen)
      [] f = "Ref Brand Name" ->
            BlobMatch(cp_page.blob, cp_page.blob.brandName, 1, MaxNameLen)
      [] f \in {"Ref MPN", "Ref SKU"} ->
            BlobMatch(cp_page.blob, cp_page.blob.manufacturerPartNumbers, 1, MaxNameLen)
      [] OTHER ->
            BlobMatch(cp_page.blob, cp_page.blob.productImageURL, 1, MaxNameLen)

\* a fallback source holds something for the field
FallbackSupplies(f) ==
    CASE f \in {"Ref Product ID", "Ref Varient ID"} -> UrlIdMatch(cp_page.url).matched
      [] f = "Ref Product Name" ->
            \E i \in 1..Len(cp_page.name_elems) : cp_page.name_elems[i].present
      [] f = "Ref Brand Name" ->
            \E i \in 1..Len(cp_page.brand_elems) : cp_page.brand_elems[i].present
      [] f \in {"Ref MPN", "Ref SKU"} -> UrlMpnMatch(cp_page.url).matched
      [] OTHER -> \E i \in 1..Len(cp_page.image_elems) : cp_page.image_elems[i].present

BlobFields ==
    {"Ref Product ID", "Ref Varient ID", "Ref Product Name", "Ref Brand Name",
     "Ref MPN", "Ref SKU", "Ref Main Image"}

\* over the fields in fs: a blob value is the output, and a field without
\* any source is ''
BlobFirst(fs) ==
    cp_out # <<>> =>
        \A f \in fs :
            /\ BlobValue(f).matched => cp_out[1][f] = BlobValue(f).group
            /\ (~BlobValue(f).matched /\ ~FallbackSupplies(f)) => cp_out[1][f] = <<>>

\* C11: for product ID, variant ID, product name, brand, MPN, SKU and main
\* image, a value found in the window.bvDCC blob is the output whatever the
\* URL and the HTML hold, and a field that no source supplies is ''.
C11_BlobTakesPriority == BlobFirst(BlobFields)

\* the statement holds for every field but the MPN
BlobFirstApartFromMpn == BlobFirst(BlobFields \ {"Ref MPN"})

(***************************************************************************)
(* cymax_scraper/fetcher.py: Fetcher.fetch                                 *)
(***************************************************************************)
block_indicators ==
    {<<"s","o","r","r","y",","," ","y","o","u"," ","h","a","v","e"," ","b","e","e","n"," ","b","l","o","c","k","e","d">>, <<"c","l","o","u","d","f","l","a","r","e"," ","r","a","y"," ","i","d">>, <<"c","h","e","c","k","i","n","g"," ","y","o","u","r"," ","b","r","o","w","s","e","r">>,
     <<"a","c","c","e","s","s"," ","d","e","n","i","e","d">>, <<"s","e","c","u","r","i","t","y"," ","c","h","e","c","k">>, <<"c","a","p","t","c","h","a">>, <<"d","i","s","t","i","l">>, <<"i","n","c","a","p","s","u","l","a">>,
     <<"s","h","i","e","l","d">>}

\* a size test that lets a page of exactly min_html_size characters pass
Mut_PageVerdict(html, min_html_size) ==
    LET html_lower == Lower(html)
    IN  IF \E indicator \in block_indicators : Contains(html_lower, indicator)
        THEN "blocked"
        ELSE IF Contains(html, <<"i","d","=","\"","p","r","o","d","u","c","t","s","-","l","i","s","t","-","p","a","g","e","\"">>)
                \/ Contains(html, <<"c","l","a","s","s","=","\"","p","r","o","d","u","c","t","-","l","i","s","t","\"">>)
             THEN "listing"
             ELSE IF Len(html) >= min_html_size THEN "success" ELSE "small"

\* lines 159-178: what the page source of an attempt leads to
PageVerdict(html, min_html_size) ==
    LET html_lower == Lower(html)
    IN  IF \E indicator \in block_indicators : Contains(html_lower, indicator)
        THEN "blocked"
        ELSE IF Contains(html, <<"i","d","=","\"","p","r","o","d","u","c","t","s","-","l","i","s","t","-","p","a","g","e","\"">>)
                \/ Contains(html, <<"c","l","a","s","s","=","\"","p","r","o","d","u","c","t","-","l","i","s","t","\"">>)
             THEN "listing"
             ELSE IF Len(html) > min_html_size THEN "success" ELSE "small"

\* the largest retries argument tried
MaxFetchRetries == 3

\* config['scraping']['min_html_size'] in the runs of the model
MinHtmlSizes == {0, 8}

HtmlNames ==
    {"empty", "denied", "shield_product", "listing_id", "listing_class",
     "captcha_listing", "upper_listing", "at_limit", "over_limit"}

\* n characters of page text
Padding(n) == [i \in 1..n |-> "x"]

\* the page source a browser may return, for a configured min_html_size
HtmlDoc(name, min_html_size) ==
    CASE name = "empty" -> <<>>
      [] name = "denied" -> <<"<","h","1",">","A","c","c","e","s","s"," ","D","e","n","i","e","d","<","/","h","1",">">> \o Padding(min_html_size)
      [] name = "shield_product" -> <<"<","h","1",">","S","u","n"," ","S","h","i","e","l","d"," ","s","o","f","a","<","/","h","1",">">> \o Padding(min_html_size)
      [] name = "listing_id" -> <<"<","d","i","v"," ","i","d","=","\"","p","r","o","d","u","c","t","s","-","l","i","s","t","-","p","a","g","e","\"",">">> \o Padding(min_html_size)
      [] name = "listing_class" -> <<"<","u","l"," ","c","l","a","s","s","=","\"","p","r","o","d","u","c","t","-","l","i","s","t","\"",">">>
      [] name = "captcha_listing" -> <<"<","u","l"," ","c","l","a","s","s","=","\"","p","r","o","d","u","c","t","-","l","i","s","t","\"",">","C","A","P","T","C","H","A">>
      [] name = "upper_listing" -> <<"<","d","i","v"," ","I","D","=","\"","P","r","o","d","u","c","t","s","-","L","i","s","t","-","P","a","g","e","\"",">">>
      [] name = "at_limit" -> Padding(min_html_size)
      [] OTHER -> Padding(min_html_size + 1)

\* what the browser does during one attempt: creating it raises, a call
\* between driver.get and page_source raises, or a page source comes back;
\* driver.quit() before continue and return may raise as well
BrowserRuns ==
    [kind : {"create_raises"}, page : {"empty"}, quit_raises : {FALSE}]
    \cup [kind : {"get_raises"}, page : {"empty"}, quit_raises : {FALSE}]
    \cup [kind : {"page"}, page : HtmlNames, quit_raises : BOOLEAN]

\* lines 125-189: one pass of the try statement. outcome is what the attempt
\* ended in; exit is how the loop body is left: "return" (lines 171, 176),
\* "continue" (line 164, past the backoff) or "fall" (on to line 192)
TryAttempt(run, min_html_size) ==
    IF run.kind # "page"
    THEN [outcome |-> "error", exit |-> "fall", session |-> (run.kind = "get_raises")]
    ELSE LET verdict == PageVerdict(HtmlDoc(run.page, min_html_size), min_html_size)
         IN  IF verdict = "small"
             THEN [outcome |-> "small", exit |-> "fall", session |-> TRUE]
             ELSE IF run.quit_raises
                  THEN [outcome |-> "error", exit |-> "fall", session |-> TRUE]
                  ELSE [outcome |-> verdict,
                        exit |-> IF verdict = "blocked" THEN "continue" ELSE "return",
                        session |-> TRUE]

RECURSIVE Pow2(_)
Pow2(n) == IF n = 0 THEN 1 ELSE 2 * Pow2(n - 1)

\* a loop that runs once more than range(1, retries + 1)
Mut_NextAttempt(loop, retries) ==
    IF loop.attempt <= retries
    THEN [loop EXCEPT !.pc = "attempt", !.attempt = loop.attempt + 1]
    ELSE [loop EXCEPT !.pc = "exhausted"]

\* for attempt in range(1, retries + 1): the next pass, or the end of the loop
NextAttempt(loop, retries) ==
    IF loop.attempt < retries
    THEN [loop EXCEPT !.pc = "attempt", !.attempt = loop.attempt + 1]
    ELSE [loop EXCEPT !.pc = "exhausted"]

AttemptEvent(k, outcome, session) ==
    [ev |-> "attempt", attempt |-> k, outcome |-> outcome, session |-> session, secs |-> 0]

SleepEvent(k, secs) ==
    [ev |-> "sleep", attempt |-> k, outcome |-> "sleep", session |-> FALSE, secs |-> secs]

NoRun == [kind |-> "none", page |-> "empty", quit_raises |-> FALSE]

NotReturned == [returned |-> FALSE, is_html |-> FALSE, page |-> "empty"]

ReturnedNone == [returned |-> TRUE, is_html |-> FALSE, page |-> "empty"]

ReturnedHtml(page) == [returned |-> TRUE, is_html |-> TRUE, page |-> page]

InitFetch ==
    /\ fetch_cfg \in [retries : 0..MaxFetchRetries, min_html_size : MinHtmlSizes]
    /\ fetch_loop = [pc |-> "call", attempt |-> 0, run |-> NoRun]
    /\ fetch_events = <<>>
    /\ fetch_ret = NotReturned
    /\ Parked("fetch")

\* fetch(url, retries) is called: lines 119-124
FetchCall ==
    /\ fetch_loop.pc = "call"
    /\ fetch_loop' = NextAttempt(fetch_loop, fetch_cfg.retries)
    /\ UNCHANGED <<fetch_cfg, fetch_events, fetch_ret>>
    /\ Frame("fetch")

\* lines 125-189: one attempt, with whatever the browser does; the loop keeps
\* the browser run of its latest attempt
FetchAttempt ==
    /\ fetch_loop.pc = "attempt"
    /\ \E run \in BrowserRuns :
          LET t == TryAttempt(run, fetch_cfg.min_html_size)
          IN  /\ fetch_events' = Append(fetch_events,
                     AttemptEvent(fetch_loop.attempt, t.outcome, t.session))
              /\ fetch_loop' =
                    CASE t.exit = "return" ->
                            [fetch_loop EXCEPT !.pc = "returned", !.run = run]
                      [] t.exit = "continue" ->
                            NextAttempt([fetch_loop EXCEPT !.run = run], fetch_cfg.retries)
                      [] OTHER -> [fetch_loop EXCEPT !.pc = "backoff", !.run = run]
              /\ fetch_ret' =
                    IF t.exit = "return"
                    THEN IF t.outcome = "success" THEN ReturnedHtml(run.page)
                         ELSE ReturnedNone
                    ELSE fetch_ret
    /\ UNCHANGED fetch_cfg
    /\ Frame("fetch")

\* lines 191-195: sleep 2 ** attempt unless this was the last attempt
FetchBackoff ==
    /\ fetch_loop.pc = "backoff"
    /\ fetch_events' =
          IF fetch_loop.attempt < fetch_cfg.retries
          THEN Append(fetch_events, SleepEvent(fetch_loop.attempt, Pow2(fetch_loop.attempt)))
          ELSE fetch_events
    /\ fetch_loop' = NextAttempt(fetch_loop, fetch_cfg.retries)
    /\ UNCHANGED <<fetch_cfg, fetch_ret>>
    /\ Frame("fetch")

\* lines 197-198: the loop is over, fetch returns None
FetchFailed ==
    /\ fetch_loop.pc = "exhausted"
    /\ fetch_loop' = [fetch_loop EXCEPT !.pc = "returned"]
    /\ fetch_ret' = ReturnedNone
    /\ UNCHANGED <<fetch_cfg, fetch_events>>
    /\ Frame("fetch")

NextFetch == FetchCall \/ FetchAttempt \/ FetchBackoff \/ FetchFailed

SpecFetch == InitFetch /\ [][NextFetch]_vars

\* the attempts made so far, in order
Attempts == SelectSeq(fetch_events, LAMBDA e : e.ev = "attempt")

\* C12: fetch(url, retries=N) makes at most N attempts, numbered 1, 2, ...,
\* each with at most one browser session; an attempt that raised is an
\* attempt like any other; after N attempts that were blocked, undersized or
\* raised the call returns None; with N = 0 it returns None without any
\* attempt.
C12_AtMostNAttempts ==
    /\ Len(Attempts) <= fetch_cfg.retries
    /\ \A i \in 1..Len(Attempts) : Attempts[i].attempt = i
    /\ fetch_loop.pc \in {"call", "attempt", "backoff", "exhausted", "returned"}
    /\ (fetch_loop.pc = "returned"
          /\ \A i \in 1..Len(Attempts) : Attempts[i].outcome \in {"error", "blocked", "small"})
          => /\ Len(Attempts) = fetch_cfg.retries
             /\ fetch_ret = ReturnedNone
    /\ fetch_cfg.retries = 0 => fetch_events = <<>>
    /\ fetch_loop.pc = "returned" <=> fetch_ret.returned

\* three attempts, one that raised while creating the browser, one blocked
\* and one undersized, and fetch has returned None
C12_Witness ==
    /\ fetch_cfg.retries = 3
    /\ fetch_ret = ReturnedNone
    /\ Len(Attempts) = 3
    /\ \E i \in 1..3 : Attempts[i].outcome = "error" /\ ~Attempts[i].session
    /\ \E i \in 1..3 : Attempts[i].outcome = "blocked"
    /\ \E i \in 1..3 : Attempts[i].outcome = "small"

\* C17: every attempt that is followed by another attempt is followed first
\* by a sleep of 2^attempt seconds, whatever the attempt ended in, and the
\* last attempt is followed by no sleep.
C17_BackoffBetweenAttempts ==
    /\ \A i \in 1..(Len(fetch_events) - 1) :
          fetch_events[i].ev = "attempt" =>
              /\ fetch_events[i + 1].ev = "sleep"
              /\ fetch_events[i + 1].secs = 2 ^ fetch_events[i].attempt
    /\ fetch_loop.pc = "returned" =>
          (fetch_events = <<>> \/ fetch_events[Len(fetch_events)].ev = "attempt")

\* the waits are as stated after every attempt that did not end in a blocked
\* page
BackoffApartFromBlocked ==
    /\ \A i \in 1..(Len(fetch_events) - 1) :
          (fetch_events[i].ev = "attempt" /\ fetch_events[i].outcome # "blocked") =>
              /\ fetch_events[i + 1].ev = "sleep"
              /\ fetch_events[i + 1].secs = 2 ^ fetch_events[i].attempt
    /\ fetch_loop.pc = "returned" =>
          (fetch_events = <<>> \/ fetch_events[Len(fetch_events)].ev = "attempt")

\* the page source of the latest attempt, when the browser delivered one
LatestHtml == HtmlDoc(fetch_loop.run.page, fetch_cfg.min_html_size)

HasBlockIndicator(html) ==
    \E indicator \in block_indicators : Contains(Lower(html), indicator)

HasListingMarker(html) ==
    \/ Contains(html, <<"i","d","=","\"","p","r","o","d","u","c","t","s","-","l","i","s","t","-","p","a","g","e","\"">>)
    \/ Contains(html, <<"c","l","a","s","s","=","\"","p","r","o","d","u","c","t","-","l","i","s","t","\"">>)

\* returned HTML is an unblocked product page above the size limit
ReturnedHtmlIsProductPage ==
    fetch_ret.is_html =>
        LET html == HtmlDoc(fetch_ret.page, fetch_cfg.min_html_size)
        IN  /\ ~HasBlockIndicator(html)
            /\ ~HasListingMarker(html)
            /\ Len(html) > fetch_cfg.min_html_size

\* a blocked or undersized page uses up its attempt: the call goes on to the
\* next attempt, or returns None after the last one
FailedPageConsumesAttempt ==
    (/\ fetch_loop.run.kind = "page"
     /\ \/ HasBlockIndicator(LatestHtml)
        \/ (~HasListingMarker(LatestHtml) /\ Len(LatestHtml) <= fetch_cfg.min_html_size))
    => /\ ~fetch_ret.is_html
       /\ fetch_ret.returned => Len(Attempts) = fetch_cfg.retries
       /\ Len(Attempts) = fetch_loop.attempt
          \/ (fetch_loop.pc = "attempt" /\ Len(Attempts) = fetch_loop.attempt - 1)

\* the latest attempt found an unblocked listing page
ListingDetected ==
    /\ fetch_loop.run.kind = "page"
    /\ ~HasBlockIndicator(LatestHtml)
    /\ HasListingMarker(LatestHtml)

MaxJobLimit == 3

MaxJobs == 3

\* the kwargs run.py passes to the spider of a job (lines 80-85)
JobSpider(offset, limit) ==
    [chunk_mode |-> FALSE, chunk_id |-> 0, total_chunks |-> 1, chunk_size |-> 0,
     sitemap_offset |-> offset, max_sitemaps |-> limit, max_urls_per_sitemap |-> 0]

NoCall == [called |-> FALSE, offset |-> 0, limit |-> 0, chunk |-> <<>>]

InitJobs ==
    /\ job_cfg \in [all_sitemaps : {ListOf(n) : n \in 0..MaxListLen},
                    limit : 0..MaxJobLimit, num_jobs : 1..MaxJobs]
    /\ job_slices = [j \in 0..(job_cfg.num_jobs - 1) |-> [taken |-> FALSE, items |-> <<>>]]
    /\ chunk_call = NoCall
    /\ Parked("jobs")

\* job j runs with offset j * limit: its spider is constructed and takes
\* self.sitemap_chunk
RunJob(j) ==
    /\ j \in DOMAIN job_slices
    /\ ~job_slices[j].taken
    /\ job_slices' = [job_slices EXCEPT ![j] =
          [taken |-> TRUE,
           items |-> SitemapChunk(JobSpider(j * job_cfg.limit, job_cfg.limit),
                                  job_cfg.all_sitemaps)]]
    /\ UNCHANGED <<job_cfg, chunk_call>>
    /\ Frame("jobs")

\* get_sitemap_chunks is called with any offset and limit
CallGetSitemapChunks(offset, limit) ==
    /\ ~chunk_call.called
    /\ chunk_call' = [called |-> TRUE, offset |-> offset, limit |-> limit,
                      chunk |-> get_sitemap_chunks(job_cfg.all_sitemaps, offset, limit)]
    /\ UNCHANGED <<job_cfg, job_slices>>
    /\ Frame("jobs")

NextJobs ==
    \/ \E j \in 0..(MaxJobs - 1) : RunJob(j)
    \/ \E offset \in 0..(MaxListLen + 1), limit \in 0..MaxJobLimit :
          CallGetSitemapChunks(offset, limit)

SpecJobs == InitJobs /\ [][NextJobs]_vars

\* the slices of jobs 0..j, one after the other
RECURSIVE ConcatJobs(_)
ConcatJobs(j) == IF j < 0 THEN <<>> ELSE ConcatJobs(j - 1) \o job_slices[j].items

\* C13: get_sitemap_chunks returns the sitemaps at positions offset+1,
\* offset+2, ... in order: all that remain when limit = 0, else at most limit
\* of them; jobs with offsets 0, L, 2L, ... and the same L > 0 take slices
\* that share no sitemap and that concatenate to the first k*L sitemaps, which
\* is the whole list once k*L reaches its length.
C13_JobSlicesPartition ==
    LET all == job_cfg.all_sitemaps
        k   == job_cfg.num_jobs
    IN  /\ chunk_call.called =>
              LET rest == IF chunk_call.offset >= Len(all) THEN 0
                          ELSE Len(all) - chunk_call.offset
                  n    == IF chunk_call.limit = 0 \/ chunk_call.limit > rest THEN rest
                          ELSE chunk_call.limit
              IN  chunk_call.chunk = [i \in 1..n |-> all[chunk_call.offset + i]]
        /\ job_cfg.limit > 0 =>
              /\ \A i, j \in DOMAIN job_slices : i # j =>
                    {job_slices[i].items[p] : p \in 1..Len(job_slices[i].items)}
                    \cap {job_slices[j].items[p] : p \in 1..Len(job_slices[j].items)} = {}
              /\ \A j \in DOMAIN job_slices : Len(job_slices[j].items) <= job_cfg.limit
              /\ (\A j \in DOMAIN job_slices : job_slices[j].taken) =>
                    /\ ConcatJobs(k - 1)
                          = [i \in 1..(IF k * job_cfg.limit >= Len(all) THEN Len(all)
                                       ELSE k * job_cfg.limit) |-> all[i]]
                    /\ k * job_cfg.limit >= Len(all) => ConcatJobs(k - 1) = all

\* three jobs with limit 2 over five sitemaps: the third job takes the one
\* sitemap that is left, and the three slices make up the list
C13_Witness ==
    /\ Len(job_cfg.all_sitemaps) = 5
    /\ job_cfg.limit = 2
    /\ job_cfg.num_jobs = 3
    /\ \A j \in DOMAIN job_slices : job_slices[j].taken
    /\ job_slices[2].items = <<5>>
    /\ ConcatJobs(2) = job_cfg.all_sitemaps
    /\ chunk_call.called /\ chunk_call.offset = 4 /\ chunk_call.limit = 0
    /\ chunk_call.chunk = <<5>>

(***************************************************************************)
(* One sitemap response parsed by ProductFetcher.parse_product_sitemap,    *)
(* for every spider configuration and every order of listing and product  *)
(* URLs in the sitemap                                                     *)
(***************************************************************************)
\* the longest sitemap and the largest --max-urls-per-sitemap tried
MaxListedUrls == 4

MaxUrlCap == 3

\* the <loc> entries of a sitemap whose j-th entry is a product page ("p")
\* or a listing page ("l")
ListedUrls(kinds) ==
    [j \in 1..Len(kinds) |-> IF kinds[j] = "p" THEN ProductUrl(1, j) ELSE ListingUrl(j)]

SitemapKinds == UNION {[1..n -> {"p", "l"}] : n \in 0..MaxListedUrls}

SitemapSpiders ==
    {[chunk_mode |-> cm, chunk_id |-> id, total_chunks |-> total, chunk_size |-> size,
      sitemap_offset |-> 0, max_sitemaps |-> 0, max_urls_per_sitemap |-> m] :
        cm \in BOOLEAN, total \in 1..MaxTotalChunks, id \in 0..(MaxTotalChunks - 1),
        size \in 0..MaxChunkSize, m \in 0..MaxUrlCap}

InitSitemapParse ==
    /\ sm_in \in {[spider |-> sp, kinds |-> ks] :
                     sp \in {s \in SitemapSpiders : s.chunk_id < s.total_chunks},
                     ks \in SitemapKinds}
    /\ sm_out = [parsed |-> FALSE, requests |-> <<>>]
    /\ Parked("smparse")

\* the sitemap response arrives and parse_product_sitemap yields its requests
ParseSitemapResponse ==
    /\ ~sm_out.parsed
    /\ sm_out' = [parsed |-> TRUE,
                  requests |-> parse_product_sitemap(sm_in.spider,
                                                     ListedUrls(sm_in.kinds))]
    /\ UNCHANGED sm_in
    /\ Frame("smparse")

NextSitemapParse == ParseSitemapResponse

SpecSitemapParse == InitSitemapParse /\ [][NextSitemapParse]_vars

\* the number of sitemap entries parse_product_sitemap considers
Considered ==
    IF sm_in.spider.max_urls_per_sitemap > 0
       /\ sm_in.spider.max_urls_per_sitemap < Len(sm_in.kinds)
    THEN sm_in.spider.max_urls_per_sitemap
    ELSE Len(sm_in.kinds)

RECURSIVE ProductEntries(_)
\* the product entries among the first n entries of the sitemap, in order
ProductEntries(n) ==
    IF n = 0 THEN <<>>
    ELSE ProductEntries(n - 1)
         \o (IF sm_in.kinds[n] = "p" THEN <<ProductUrl(1, n)>> ELSE <<>>)

\* C14: every request of parse_product_sitemap is for a product-detail URL
\* listed in the sitemap among the entries considered (the first m when
\* m > 0, all when m = 0), the requests follow sitemap order, none is for a
\* listing URL, at most m are issued when m > 0, and a spider that does not
\* chunk requests every product URL among the entries considered.
C14_RequestsOnlyConsideredPdp ==
    sm_out.parsed =>
        LET listed == ListedUrls(sm_in.kinds)
            reqd   == sm_out.requests
            m      == sm_in.spider.max_urls_per_sitemap
        IN  /\ \E pos \in [1..Len(reqd) -> 1..Considered] :
                  /\ \A r \in 1..Len(reqd) :
                        /\ listed[pos[r]] = reqd[r]
                        /\ sm_in.kinds[pos[r]] = "p"
                        /\ ~_is_plp_url(reqd[r])
                  /\ \A r, q \in 1..Len(reqd) : r < q => pos[r] < pos[q]
            /\ m > 0 => Len(reqd) <= m
            /\ ~(sm_in.spider.chunk_mode /\ sm_in.spider.total_chunks > 1)
                  => reqd = ProductEntries(Considered)

\* a sitemap that lists a listing page before three product pages, parsed
\* with m = 2 by a spider that does not chunk: one request, for the first
\* product page
C14_Witness ==
    /\ sm_out.parsed
    /\ sm_in.kinds = <<"l", "p", "p", "p">>
    /\ sm_in.spider.max_urls_per_sitemap = 2
    /\ ~sm_in.spider.chunk_mode
    /\ sm_out.requests = <<ProductUrl(1, 2)>>

(***************************************************************************)
(* run_ashley_scraper.py main(): the command line goes through             *)
(* argparse.parse_args and main reads args.deduplicate and args.urls_file  *)
(***************************************************************************)
\* the option strings main() adds to the parser, lines 383-399
OptionStrings ==
    {<<"-","-","m","a","n","u","f","a","c","t","u","r","e","r","-","i","d">>, <<"-","-","s","t","a","r","t","-","p","a","g","e">>, <<"-","-","e","n","d","-","p","a","g","e">>, <<"-","-","c","h","u","n","k">>,
     <<"-","-","u","r","l","-","c","o","n","c","u","r","r","e","n","c","y">>, <<"-","-","u","r","l","s","-","f","i","l","e">>, <<"-","-","p","r","o","d","u","c","t","-","c","o","n","c","u","r","r","e","n","c","y">>,
     <<"-","-","p","r","o","d","u","c","t","-","c","h","u","n","k","s">>, <<"-","-","c","h","u","n","k","-","s","i","z","e">>, <<"-","-","j","o","b","-","i","d">>, <<"-","-","o","u","t","p","u","t","-","d","i","r">>,
     <<"-","-","s","i","t","e","m","a","p","-","o","f","f","s","e","t">>, <<"-","-","m","a","x","-","s","i","t","e","m","a","p","s">>, <<"-","-","m","a","x","-","u","r","l","s","-","p","e","r","-","s","i","t","e","m","a","p">>}

\* the options declared with type=int
IntOptions ==
    {<<"-","-","s","t","a","r","t","-","p","a","g","e">>, <<"-","-","e","n","d","-","p","a","g","e">>, <<"-","-","c","h","u","n","k">>, <<"-","-","u","r","l","-","c","o","n","c","u","r","r","e","n","c","y">>,
     <<"-","-","p","r","o","d","u","c","t","-","c","o","n","c","u","r","r","e","n","c","y">>, <<"-","-","p","r","o","d","u","c","t","-","c","h","u","n","k","s">>, <<"-","-","c","h","u","n","k","-","s","i","z","e">>,
     <<"-","-","s","i","t","e","m","a","p","-","o","f","f","s","e","t">>, <<"-","-","m","a","x","-","s","i","t","e","m","a","p","s">>, <<"-","-","m","a","x","-","u","r","l","s","-","p","e","r","-","s","i","t","e","m","a","p">>}

\* argparse's dest of an option string: no leading dashes, "-" becomes "_"
Dest(option) ==
    [i \in 1..(Len(option) - 2) |-> IF option[i + 2] = "-" THEN "_" ELSE option[i + 2]]

\* the attributes of the Namespace parse_args returns
Dests == {Dest(o) : o \in OptionStrings}

\* argparse: the options a token selects, by exact match or as a prefix
OptionsOf(token) ==
    IF token \in OptionStrings THEN {token}
    ELSE {o \in OptionStrings : StartsWith(o, token)}

IsInt(text) == text # <<>> /\ \A i \in 1..Len(text) : IsDigit(text[i])

ArgparseError == [ok |-> FALSE, urls_file |-> None]

RECURSIVE parse_args(_, _, _, _)
\* ArgumentParser.parse_args on the tokens from position i on: every option
\* takes one argument, an unknown option or a positional is left over, and
\* anything left over is an error (exit status 2)
parse_args(argv, i, urls_file, extras) ==
    IF i > Len(argv)
    THEN IF extras THEN ArgparseError ELSE [ok |-> TRUE, urls_file |-> urls_file]
    ELSE IF ~StartsWith(argv[i], <<"-">>)
    THEN parse_args(argv, i + 1, urls_file, TRUE)
    ELSE LET options == OptionsOf(argv[i])
         IN  IF options = {} THEN parse_args(argv, i + 1, urls_file, TRUE)
             ELSE IF Cardinality(options) > 1 THEN ArgparseError
             ELSE LET option == CHOOSE o \in options : TRUE
                  IN  IF i = Len(argv) \/ StartsWith(argv[i + 1], <<"-">>)
                      THEN ArgparseError
                      ELSE IF option \in IntOptions /\ ~IsInt(argv[i + 1])
                      THEN ArgparseError
                      ELSE parse_args(argv, i + 2,
                                      IF option = <<"-","-","u","r","l","s","-","f","i","l","e">>
                                      THEN Str(argv[i + 1]) ELSE urls_file,
                                      extras)

\* normalize_and_deduplicate, lines 320-339: what it does with sys.argv
\* (argv here is sys.argv[1:])
DeduplicateOutcome(argv) ==
    IF Len(argv) < 3 \/ argv[1] # <<"-","-","d","e","d","u","p","l","i","c","a","t","e">> THEN "usage"
    ELSE LET outputs == {i \in 2..(Len(argv) - 1) : argv[i] = <<"-","-","o","u","t","p","u","t">>}
         IN  IF outputs = {} THEN "no_output_file"
             ELSE "deduplicated"

\* main(), lines 380-407 and the two branches after them
main(argv) ==
    LET namespace == parse_args(argv, 1, None, FALSE)
    IN  IF ~namespace.ok THEN "SystemExit(2)"
        ELSE IF <<"d","e","d","u","p","l","i","c","a","t","e">> \notin Dests THEN "AttributeError"
        ELSE IF <<"-","-","d","e","d","u","p","l","i","c","a","t","e">> \in {argv[i] : i \in 1..Len(argv)}
        THEN DeduplicateOutcome(argv)
        ELSE IF namespace.urls_file.is_none THEN "collect_urls"
        ELSE "scrape_products"

\* the longest command line tried
MaxArgs == 4

ArgTokens ==
    {<<"-","-","d","e","d","u","p","l","i","c","a","t","e">>, <<"i","n","1",".","j","s","o","n">>, <<"i","n","2",".","j","s","o","n">>, <<"-","-","o","u","t","p","u","t">>,
     <<"o","u","t",".","j","s","o","n">>, <<"-","-","u","r","l","s","-","f","i","l","e">>}

CommandLines == UNION {[1..n -> ArgTokens] : n \in 0..MaxArgs}

InitAshleyMain ==
    /\ am_argv \in CommandLines
    /\ am_run = "not_run"
    /\ Parked("ashmain")

\* the script is run with the command line
RunAshleyMain ==
    /\ am_run = "not_run"
    /\ am_run' = main(am_argv)
    /\ UNCHANGED am_argv
    /\ Frame("ashmain")

NextAshleyMain == RunAshleyMain

SpecAshleyMain == InitAshleyMain /\ [][NextAshleyMain]_vars

\* the command line of the deduplication step
DedupCommandLine ==
    /\ Len(am_argv) >= 4
    /\ am_argv[1] = <<"-","-","d","e","d","u","p","l","i","c","a","t","e">>
    /\ am_argv[Len(am_argv) - 1] = <<"-","-","o","u","t","p","u","t">>
    /\ am_argv[Len(am_argv)] = <<"o","u","t",".","j","s","o","n">>
    /\ \A i \in 2..(Len(am_argv) - 2) : am_argv[i] \in {<<"i","n","1",".","j","s","o","n">>, <<"i","n","2",".","j","s","o","n">>}

\* a command line without --deduplicate that argparse accepts
PlainCommandLine ==
    \/ am_argv = <<>>
    \/ am_argv = <<<<"-","-","u","r","l","s","-","f","i","l","e">>, <<"i","n","1",".","j","s","o","n">>>>

\* C15: run with "--deduplicate input1.json ... --output output.json" the
\* script deduplicates and starts no crawl; run without --deduplicate it goes
\* on to URL collection (no --urls-file) or to product scraping (--urls-file
\* given) and does not fail in argument handling.
C15_ArgumentHandling ==
    am_run # "not_run" =>
        /\ DedupCommandLine => am_run = "deduplicated"
        /\ PlainCommandLine =>
              am_run = (IF am_argv = <<>> THEN "collect_urls" ELSE "scrape_products")

\* what the script does on every command line: parse_args rejects it, or
\* reading args.deduplicate raises
MainStopsInArgumentHandling ==
    am_run # "not_run" =>
        /\ am_run \in {"SystemExit(2)", "AttributeError"}
        /\ DedupCommandLine => am_run = "SystemExit(2)"
        /\ PlainCommandLine => am_run = "AttributeError"

MainStopsWitness ==
    /\ am_run = "AttributeError"
    /\ am_argv = <<<<"-","-","o","u","t","p","u","t">>, <<"o","u","t",".","j","s","o","n">>, <<"-","-","u","r","l","s","-","f","i","l","e">>, <<"i","n","1",".","j","s","o","n">>>>

(***************************************************************************)
(* normalize_and_deduplicate: the URL lists of the input files are merged, *)
(* one URL is kept per normalized form, and the result is written          *)
(***************************************************************************)
\* str.rstrip(chars)
RStripChars(s, chars) ==
    LET keep == {i \in 1..Len(s) : s[i] \notin chars}
    IN  IF keep = {} THEN <<>>
        ELSE SubSeq(s, 1, CHOOSE i \in keep : \A j \in keep : i >= j)

\* normalize_url of a non-empty url, lines 313-318
normalize_url(u) ==
    LET parsed == urlparse(RStripChars(u, {"/"}))
    IN  parsed.scheme \o <<":", "/", "/">> \o parsed.netloc \o parsed.path

RECURSIVE UrlMap(_, _)
\* the loop of lines 352-357: url_map after the urls from position i on are
\* added to the (normalized, url) pairs in pairs, in insertion order
UrlMap(all_urls, pairs) ==
    IF all_urls = <<>> THEN pairs
    ELSE LET u == Head(all_urls)
             key == normalize_url(u)
         IN  IF u # <<>> /\ key # <<>> /\ \A k \in 1..Len(pairs) : pairs[k][1] # key
             THEN UrlMap(Tail(all_urls), Append(pairs, <<key, u>>))
             ELSE UrlMap(Tail(all_urls), pairs)

\* output_data of normalize_and_deduplicate for the url lists of two input
\* files, lines 341-369
DeduplicatedOutput(first_file, second_file) ==
    LET url_map     == UrlMap(first_file \o second_file, <<>>)
        unique_urls == [k \in 1..Len(url_map) |-> url_map[k][2]]
    IN  [written |-> TRUE, urls |-> unique_urls, total_urls |-> Len(unique_urls)]

\* the number of URLs in the two input files together
MaxDedupUrls == 3

DedupUrls ==
    {<<>>, <<"h","t","t","p","s",":","/","/","c",".","c","o","/","a">>, <<"h","t","t","p","s",":","/","/","c",".","c","o","/","a","/">>, <<"h","t","t","p","s",":","/","/","c",".","c","o","/","a","?","q","=","1">>,
     <<"h","t","t","p","s",":","/","/","c",".","c","o","/","a","/","?","q","=","1">>, <<"h","t","t","p","s",":","/","/","c",".","c","o","/","a","#","f">>, <<"h","t","t","p","s",":","/","/","c",".","c","o","/","b">>}

InitDedup ==
    /\ dd_in \in {f \in [first_file : UNION {[1..n -> DedupUrls] : n \in 0..MaxDedupUrls},
                         second_file : UNION {[1..n -> DedupUrls] : n \in 0..MaxDedupUrls}] :
                     Len(f.first_file) + Len(f.second_file) <= MaxDedupUrls}
    /\ dd_out = [written |-> FALSE, urls |-> <<>>, total_urls |-> 0]
    /\ Parked("dedup")

\* the script deduplicates the two files and writes the output file
NormalizeAndDeduplicate ==
    /\ ~dd_out.written
    /\ dd_out' = DeduplicatedOutput(dd_in.first_file, dd_in.second_file)
    /\ UNCHANGED dd_in
    /\ Frame("dedup")

NextDedup == NormalizeAndDeduplicate

SpecDedup == InitDedup /\ [][NextDedup]_vars

\* a URL without its fragment, its query string and its trailing "/"
Canonical(u) ==
    LET hash  == Find(u, "#", 1)
        nofr  == IF hash = 0 THEN u ELSE SubSeq(u, 1, hash - 1)
        quest == Find(nofr, "?", 1)
        noq   == IF quest = 0 THEN nofr ELSE SubSeq(nofr, 1, quest - 1)
    IN  RStripChars(noq, {"/"})

\* two URLs that differ only by a query string
SameButQuery(u, v) ==
    LET qu == Find(u, "?", 1)
        qv == Find(v, "?", 1)
    IN  /\ u # v
        /\ Find(u, "#", 1) = 0 /\ Find(v, "#", 1) = 0
        /\ (IF qu = 0 THEN u ELSE SubSeq(u, 1, qu - 1))
              = (IF qv = 0 THEN v ELSE SubSeq(v, 1, qv - 1))

\* the non-empty URLs of the input files, in input-file order
DedupInput == SelectSeq(dd_in.first_file \o dd_in.second_file, LAMBDA u : u # <<>>)

\* C16: in the written list no two entries differ only by a trailing "/", a
\* query string or a fragment; of each group of equivalent URLs the first
\* occurrence in input-file order is kept, the output keeps first-occurrence
\* order, and total_urls is the length of the written list.
C16_OneUrlPerEquivalenceGroup ==
    dd_out.written =>
        LET out == dd_out.urls
        IN  /\ \A i, j \in 1..Len(out) : i # j => Canonical(out[i]) # Canonical(out[j])
            /\ \A i, j \in 1..Len(out) : ~SameButQuery(out[i], out[j])
            /\ \E pos \in [1..Len(out) -> 1..Len(DedupInput)] :
                  /\ \A i \in 1..Len(out) :
                        /\ DedupInput[pos[i]] = out[i]
                        /\ \A k \in 1..(pos[i] - 1) :
                              Canonical(DedupInput[k]) # Canonical(out[i])
                  /\ \A i, j \in 1..Len(out) : i < j => pos[i] < pos[j]
            /\ \A k \in 1..Len(DedupInput) :
                  \E i \in 1..Len(out) : Canonical(out[i]) = Canonical(DedupInput[k])
            /\ dd_out.total_urls = Len(out)

\* a URL whose path ends with "/" right before its query string or fragment
SlashBeforeQuery(u) ==
    \E i \in 2..Len(u) : u[i] \in {"?", "#"} /\ u[i - 1] = "/"

\* what holds of the written list: it is the list of first occurrences apart
\* from URLs with a "/" right before the query string, which rstrip leaves in
\* place
DedupApartFromSlashBeforeQuery ==
    dd_out.written =>
        LET out == dd_out.urls
        IN  /\ \A i, j \in 1..Len(out) :
                  (i # j /\ ~SlashBeforeQuery(out[i]) /\ ~SlashBeforeQuery(out[j]))
                     => Canonical(out[i]) # Canonical(out[j])
            /\ \E pos \in [1..Len(out) -> 1..Len(DedupInput)] :
                  /\ \A i \in 1..Len(out) : DedupInput[pos[i]] = out[i]
                  /\ \A i, j \in 1..Len(out) : i < j => pos[i] < pos[j]
            /\ dd_out.total_urls = Len(out)

DedupSlashWitness ==
    /\ dd_out.written
    /\ dd_in.first_file = <<<<"h","t","t","p","s",":","/","/","c",".","c","o","/","a","/","?","q","=","1">>>>
    /\ dd_in.second_file = <<<<"h","t","t","p","s",":","/","/","c",".","c","o","/","a","/">>, <<"h","t","t","p","s",":","/","/","c",".","c","o","/","a","#","f">>>>
    /\ dd_out.urls = <<<<"h","t","t","p","s",":","/","/","c",".","c","o","/","a","/","?","q","=","1">>, <<"h","t","t","p","s",":","/","/","c",".","c","o","/","a","/">>>>

(***************************************************************************)
(* cymax_scraper/main.py: main() submits process_product for every URL to  *)
(* a ThreadPoolExecutor and tallies the results as they complete           *)
(***************************************************************************)
\* the number of URLs get_product_urls returns, at most
MaxPoolUrls == 3

\* the worker threads of the pool when the environment sets no other number
MAX_WORKERS == 2

\* what happens to a URL in the try block of process_product: fetch returns
\* nothing (or a listing page), the page is too small or its data not valid,
\* a call raises before a row is written, or the row is saved
PageKinds == {"no_html", "too_small", "raises", "perfect"}

\* the way process_product leaves its try block, lines 56-86
TryPath(kind) ==
    CASE kind = "no_html"     -> "return_0"
      [] kind = "too_small"   -> "fall_through"
      [] kind = "raises"      -> "except"
      [] kind = "perfect"     -> "saved"

\* a tally that takes every result but 1 for a saved row
Mut_CountResult(result, count) ==
    IF result # 1 THEN [count EXCEPT !.successful = @ + 1]
    ELSE [count EXCEPT !.failed = @ + 1]

\* the tally of the as_completed loop for one result, lines 133-137
CountResult(result, count) ==
    IF result = 1 THEN [count EXCEPT !.successful = @ + 1]
    ELSE [count EXCEPT !.failed = @ + 1]

QueuedTask == [pc |-> "queued", loaded |-> 0, seq_no |-> 0, result |-> 0, runs |-> 0]

InitPool ==
    /\ pool_cfg \in [kinds : UNION {[1..n -> PageKinds] : n \in 1..MaxPoolUrls},
                     max_workers : 1..MAX_WORKERS]
    /\ pool_tasks = [t \in 1..Len(pool_cfg.kinds) |-> QueuedTask]
    /\ csv_rows = <<>>
    /\ total_perfect = 0
    /\ processed_urls = 0
    /\ tally = [successful |-> 0, failed |-> 0]
    /\ Parked("pool")

Running == {t \in DOMAIN pool_tasks : pool_tasks[t].pc \notin {"queued", "done", "collected"}}

\* a free worker thread takes the oldest submitted task
TakeTask(t) ==
    /\ pool_tasks[t].pc = "queued"
    /\ \A s \in 1..(t - 1) : pool_tasks[s].pc # "queued"
    /\ Cardinality(Running) < pool_cfg.max_workers
    /\ pool_tasks' = [pool_tasks EXCEPT ![t].pc = "running", ![t].runs = @ + 1]
    /\ UNCHANGED <<pool_cfg, csv_rows, total_perfect, processed_urls, tally>>
    /\ Frame("pool")

\* the try block of process_product up to its end or, for a perfect page,
\* through append_to_csv (which holds csv_lock while it writes the row)
RunTryBlock(t) ==
    /\ pool_tasks[t].pc = "running"
    /\ LET saved == TryPath(pool_cfg.kinds[t]) = "saved"
       IN  /\ pool_tasks' = [pool_tasks EXCEPT
                 ![t].pc = IF saved THEN "appended" ELSE "finally"]
           /\ csv_rows' = IF saved THEN Append(csv_rows, t) ELSE csv_rows
    /\ UNCHANGED <<pool_cfg, total_perfect, processed_urls, tally>>
    /\ Frame("pool")

\* total_perfect += 1, line 77: the global is read ...
LoadTotalPerfect(t) ==
    /\ pool_tasks[t].pc = "appended"
    /\ pool_tasks' = [pool_tasks EXCEPT ![t].pc = "loaded", ![t].loaded = total_perfect]
    /\ UNCHANGED <<pool_cfg, csv_rows, total_perfect, processed_urls, tally>>
    /\ Frame("pool")

\* ... and the sum is stored; csv_lock is not held
StoreTotalPerfect(t) ==
    /\ pool_tasks[t].pc = "loaded"
    /\ total_perfect' = pool_tasks[t].loaded + 1
    /\ pool_tasks' = [pool_tasks EXCEPT ![t].pc = "stored"]
    /\ UNCHANGED <<pool_cfg, csv_rows, processed_urls, tally>>
    /\ Frame("pool")

\* line 78-79: the row is logged as #{total_perfect} and 1 is returned
LogSaved(t) ==
    /\ pool_tasks[t].pc = "stored"
    /\ pool_tasks' = [pool_tasks EXCEPT ![t].pc = "finally", ![t].seq_no = total_perfect,
                                        ![t].result = 1]
    /\ UNCHANGED <<pool_cfg, csv_rows, total_perfect, processed_urls, tally>>
    /\ Frame("pool")

\* the finally clause, lines 88-90, under csv_lock, and the return
Finally(t) ==
    /\ pool_tasks[t].pc = "finally"
    /\ processed_urls' = processed_urls + 1
    /\ pool_tasks' = [pool_tasks EXCEPT ![t].pc = "done"]
    /\ UNCHANGED <<pool_cfg, csv_rows, total_perfect, tally>>
    /\ Frame("pool")

\* the as_completed loop of main() takes a finished future
CollectResult(t) ==
    /\ pool_tasks[t].pc = "done"
    /\ tally' = CountResult(pool_tasks[t].result, tally)
    /\ pool_tasks' = [pool_tasks EXCEPT ![t].pc = "collected"]
    /\ UNCHANGED <<pool_cfg, csv_rows, total_perfect, processed_urls>>
    /\ Frame("pool")

NextPool ==
    \/ \E t \in DOMAIN pool_tasks : TakeTask(t)
    \/ \E t \in DOMAIN pool_tasks : RunTryBlock(t)
    \/ \E t \in DOMAIN pool_tasks : LoadTotalPerfect(t)
    \/ \E t \in DOMAIN pool_tasks : StoreTotalPerfect(t)
    \/ \E t \in DOMAIN pool_tasks : LogSaved(t)
    \/ \E t \in DOMAIN pool_tasks : Finally(t)
    \/ \E t \in DOMAIN pool_tasks : CollectResult(t)

SpecPool == InitPool /\ [][NextPool]_vars

\* the pool has drained: every future was taken by the as_completed loop
Drained == \A t \in DOMAIN pool_tasks : pool_tasks[t].pc = "collected"

WorkersFinished == \A t \in DOMAIN pool_tasks : pool_tasks[t].pc \in {"done", "collected"}

RowsOf(t) == Cardinality({i \in 1..Len(csv_rows) : csv_rows[i] = t})

\* C19: when the pool has drained every URL was processed exactly once,
\* successful + failed and processed_urls both equal the number of URLs,
\* successful equals the number of rows appended to the CSV, and
\* process_product returned 1 exactly for the URLs whose row it appended.
C19_TalliesMatchUrls ==
    /\ \A t \in DOMAIN pool_tasks : pool_tasks[t].runs <= 1
    /\ Drained =>
          /\ \A t \in DOMAIN pool_tasks : pool_tasks[t].runs = 1
          /\ tally.successful + tally.failed = Len(pool_cfg.kinds)
          /\ processed_urls = Len(pool_cfg.kinds)
          /\ tally.successful = Len(csv_rows)
          /\ \A t \in DOMAIN pool_tasks :
                /\ pool_tasks[t].result = 1 <=> RowsOf(t) = 1
                /\ pool_tasks[t].result # 1 => RowsOf(t) = 0

\* three URLs on two workers, of which two are saved and one raises
C19_Witness ==
    /\ Drained
    /\ pool_cfg.max_workers = 2
    /\ pool_cfg.kinds = <<"perfect", "raises", "perfect">>
    /\ csv_rows = <<3, 1>>
    /\ tally = [successful |-> 2, failed |-> 1]
    /\ processed_urls = 3

\* C20: after all worker threads finish total_perfect equals the number of
\* rows appended to the CSV, and no two saved rows were logged with the same
\* sequence number.
C20_TotalPerfectCountsRows ==
    WorkersFinished =>
        /\ total_perfect = Len(csv_rows)
        /\ \A s, t \in DOMAIN pool_tasks :
              (s # t /\ pool_tasks[s].result = 1 /\ pool_tasks[t].result = 1)
                 => pool_tasks[s].seq_no # pool_tasks[t].seq_no

\* what holds of total_perfect: it never exceeds the number of rows, and
\* with one worker thread it counts them
TotalPerfectAtMostRows ==
    /\ total_perfect <= Len(csv_rows)
    /\ (WorkersFinished /\ pool_cfg.max_workers = 1) =>
          /\ total_perfect = Len(csv_rows)
          /\ \A s, t \in DOMAIN pool_tasks :
                (s # t /\ pool_tasks[s].result = 1 /\ pool_tasks[t].result = 1)
                   => pool_tasks[s].seq_no # pool_tasks[t].seq_no

\* two rows saved, one increment lost
LostIncrementWitness ==
    /\ WorkersFinished
    /\ Len(csv_rows) = 2
    /\ total_perfect = 1

(***************************************************************************)
(* cymax_scraper/main.py: the output CSV.  main() writes the header, the   *)
(* worker threads append rows in append_to_csv under csv_lock and take the *)
(* same lock in the finally clause of process_product                      *)
(***************************************************************************)
\* the number of tasks that go through the pool, at most
MaxCsvTasks == 3

\* header=not file_exists, line 48
header(file_exists) == ~file_exists

\* a header that is written when the file is there
Mut_to_csv(lines, file_exists) ==
    (IF file_exists THEN <<"header">> ELSE <<>>) \o <<"row">>

\* df.to_csv(filename, mode='a', index=False, header=...) for a frame of
\* one row: the lines it adds to the file
to_csv(lines, file_exists) ==
    (IF header(file_exists) THEN <<"header">> ELSE <<>>) \o <<"row">>

\* the file before the run: not there, or left over from an earlier run
OldFiles ==
    {[exists |-> FALSE, lines |-> <<>>],
     [exists |-> TRUE, lines |-> <<"header", "row">>]}

InitCsv ==
    /\ csv_file \in OldFiles
    /\ csv_main \in [pc : {"start"}, max_workers : 1..MAX_WORKERS]
    /\ csv_tasks \in UNION {[1..n -> {[pc |-> "queued", file_exists |-> FALSE]}] :
                               n \in 1..MaxCsvTasks}
    /\ csv_lock = 0
    /\ Parked("csv")

\* main(), lines 106-113: header_df.to_csv(OUTPUT_CSV, index=False) writes
\* the file anew with the header row, before the executor is created
MainWritesHeader ==
    /\ csv_main.pc = "start"
    /\ csv_file' = [exists |-> TRUE, lines |-> <<"header">>]
    /\ csv_main' = [csv_main EXCEPT !.pc = "pool"]
    /\ UNCHANGED <<csv_lock, csv_tasks>>
    /\ Frame("csv")

CsvRunning ==
    {t \in DOMAIN csv_tasks : csv_tasks[t].pc \notin {"queued", "done"}}

\* a free worker thread takes the oldest submitted task
TakeCsvTask(t) ==
    /\ csv_main.pc = "pool"
    /\ csv_tasks[t].pc = "queued"
    /\ \A s \in 1..(t - 1) : csv_tasks[s].pc # "queued"
    /\ Cardinality(CsvRunning) < csv_main.max_workers
    /\ csv_tasks' = [csv_tasks EXCEPT ![t].pc = "try"]
    /\ UNCHANGED <<csv_lock, csv_file, csv_main>>
    /\ Frame("csv")

\* process_product leaves the try block without a row to save
NothingToSave(t) ==
    /\ csv_tasks[t].pc = "try"
    /\ csv_tasks' = [csv_tasks EXCEPT ![t].pc = "finally"]
    /\ UNCHANGED <<csv_lock, csv_file, csv_main>>
    /\ Frame("csv")

\* append_to_csv, line 44: with csv_lock
AcquireForAppend(t) ==
    /\ csv_tasks[t].pc = "try"
    /\ csv_lock = 0
    /\ csv_lock' = t
    /\ csv_tasks' = [csv_tasks EXCEPT ![t].pc = "locked"]
    /\ UNCHANGED <<csv_file, csv_main>>
    /\ Frame("csv")

\* line 47: file_exists = os.path.exists(filename)
CheckFileExists(t) ==
    /\ csv_tasks[t].pc = "locked"
    /\ csv_tasks' = [csv_tasks EXCEPT ![t].pc = "checked",
                                      ![t].file_exists = csv_file.exists]
    /\ UNCHANGED <<csv_lock, csv_file, csv_main>>
    /\ Frame("csv")

\* line 48: the row is written, or to_csv raises and nothing is written
WriteRow(t, raises) ==
    /\ csv_tasks[t].pc = "checked"
    /\ csv_file' = IF raises THEN csv_file
                   ELSE [exists |-> TRUE,
                         lines |-> csv_file.lines
                                   \o to_csv(csv_file.lines, csv_tasks[t].file_exists)]
    /\ csv_tasks' = [csv_tasks EXCEPT ![t].pc = "written"]
    /\ UNCHANGED <<csv_lock, csv_main>>
    /\ Frame("csv")

\* the with statement of append_to_csv ends and releases csv_lock
ReleaseAfterAppend(t) ==
    /\ csv_tasks[t].pc = "written"
    /\ csv_lock' = 0
    /\ csv_tasks' = [csv_tasks EXCEPT ![t].pc = "finally"]
    /\ UNCHANGED <<csv_file, csv_main>>
    /\ Frame("csv")

\* the finally clause, lines 88-90: with csv_lock: processed_urls += 1
AcquireInFinally(t) ==
    /\ csv_tasks[t].pc = "finally"
    /\ csv_lock = 0
    /\ csv_lock' = t
    /\ csv_tasks' = [csv_tasks EXCEPT ![t].pc = "counting"]
    /\ UNCHANGED <<csv_file, csv_main>>
    /\ Frame("csv")

ReleaseInFinally(t) ==
    /\ csv_tasks[t].pc = "counting"
    /\ csv_lock' = 0
    /\ csv_tasks' = [csv_tasks EXCEPT ![t].pc = "done"]
    /\ UNCHANGED <<csv_file, csv_main>>
    /\ Frame("csv")

NextCsv ==
    \/ MainWritesHeader
    \/ \E t \in DOMAIN csv_tasks : TakeCsvTask(t)
    \/ \E t \in DOMAIN csv_tasks : NothingToSave(t)
    \/ \E t \in DOMAIN csv_tasks : AcquireForAppend(t)
    \/ \E t \in DOMAIN csv_tasks : CheckFileExists(t)
    \/ \E t \in DOMAIN csv_tasks : \E raises \in BOOLEAN : WriteRow(t, raises)
    \/ \E t \in DOMAIN csv_tasks : ReleaseAfterAppend(t)
    \/ \E t \in DOMAIN csv_tasks : AcquireInFinally(t)
    \/ \E t \in DOMAIN csv_tasks : ReleaseInFinally(t)

SpecCsv == InitCsv /\ [][NextCsv]_vars

\* the worker threads that are inside the with block of append_to_csv
InAppend == {t \in DOMAIN csv_tasks : csv_tasks[t].pc \in {"locked", "checked", "written"}}

HeaderRows == {i \in 1..Len(csv_file.lines) : csv_file.lines[i] = "header"}

\* C21: at most one worker thread is inside the CSV append at any time; no
\* worker starts before main has written the header, and from then on the
\* file has exactly one header row, its first line.
C21_OneWriterOneHeader ==
    /\ Cardinality(InAppend) <= 1
    /\ \A t \in InAppend : csv_lock = t
    /\ csv_main.pc = "start" => \A t \in DOMAIN csv_tasks : csv_tasks[t].pc = "queued"
    /\ csv_main.pc = "pool" => HeaderRows = {1}

\* one worker is about to write its row below the header and the row of an
\* earlier task while the other waits for the lock to append
C21_Witness ==
    /\ csv_main.pc = "pool"
    /\ csv_file.lines = <<"header", "row">>
    /\ \E s, t \in DOMAIN csv_tasks :
          /\ csv_tasks[s].pc = "checked" /\ csv_tasks[s].file_exists
          /\ csv_tasks[t].pc = "try"
          /\ csv_lock = s

(***************************************************************************)
(* AshleyURLSpider: parse_page collects the product and bundle URLs of     *)
(* every manufacturer-API page into ashley_urls and url_list               *)
(***************************************************************************)
\* F applied to the value of e, which is computed once
Eager(F(_), e) == CHOOSE r \in {F(x) : x \in {e}} : TRUE

\* urllib's uses_relative, as far as the URLs of the model go
UsesRelative == {<<>>, <<"h","t","t","p">>, <<"h","t","t","p","s">>, <<"f","t","p">>}

\* the path urljoin gives a reference with a path against a base whose path
\* is '' or '/': segments after the root, empty middle segments filtered
\* out (no '.' or '..' segment occurs in the model's URLs)
JoinedPath(path) ==
    Eager(LAMBDA full :
            Eager(LAMBDA idx :
                    [k \in 1..Cardinality(idx) |->
                        full[CHOOSE i \in idx : Cardinality({j \in idx : j <= i}) = k]],
                  {i \in 1..Len(full) :
                      ~(full[i] = "/" /\ i > 1 /\ full[i - 1] = "/")}),
          IF path[1] = "/" THEN path ELSE <<"/">> \o path)

\* urljoin for a reference p against a base b, both parsed
JoinParsed(b, p, u) ==
    LET scheme == IF p.scheme = <<>> THEN b.scheme ELSE p.scheme
    IN  IF scheme # b.scheme \/ scheme \notin UsesRelative THEN u
        ELSE IF p.netloc # <<>> THEN Compose([p EXCEPT !.scheme = scheme])
        ELSE IF p.path = <<>> /\ p.params = <<>>
        THEN Compose([scheme |-> scheme, netloc |-> b.netloc, path |-> b.path,
                      params |-> b.params,
                      query |-> IF p.query = <<>> THEN b.query ELSE p.query,
                      fragment |-> p.fragment])
        ELSE Eager(LAMBDA path :
                     Compose([scheme |-> scheme, netloc |-> b.netloc, path |-> path,
                              params |-> p.params, query |-> p.query,
                              fragment |-> p.fragment]),
                   IF p.path = <<>> THEN b.path ELSE JoinedPath(p.path))

\* urllib.parse.urljoin(base, u)
urljoin(base, u) ==
    IF u = <<>> THEN base
    ELSE Eager(LAMBDA b : Eager(LAMBDA p : JoinParsed(b, p, u), urlparse(u)),
               urlparse(base))

ColemanBase == <<"h","t","t","p","s",":","/","/","c","o","l","e","m","a","n","f","u","r","n","i","t","u","r","e",".","c","o","m">>

\* lines 92-100: url.strip().strip('"').strip("'") made absolute
full_url(raw) ==
    Eager(LAMBDA u :
            IF StartsWith(u, <<"h","t","t","p",":","/","/">>) \/ StartsWith(u, <<"h","t","t","p","s",":","/","/">>) THEN u
            ELSE IF StartsWith(u, <<"/">>) THEN urljoin(ColemanBase, u)
            ELSE urljoin(ColemanBase \o <<"/">>, u),
          Eager(LAMBDA v : StripChars(v, {"'"}),
                Eager(LAMBDA w : StripChars(w, {"\""}), StripChars(raw, Whitespace))))

\* a normalized form that keeps the trailing "/" of the path
Mut_normalized_url(parsed) ==
    parsed.scheme \o <<":", "/", "/">> \o parsed.netloc \o parsed.path

\* line 103: f"{parsed.scheme}://{parsed.netloc}{parsed.path.rstrip('/')}"
normalized_url(parsed) ==
    parsed.scheme \o <<":", "/", "/">> \o parsed.netloc \o RStripChars(parsed.path, {"/"})

\* lines 90-111 for one 'url' value: the URL to collect, if there is one
CollectUrl(v) ==
    IF v.t = "str" /\ v.s # <<>> /\ StripChars(v.s, Whitespace) # <<>>
    THEN Eager(LAMBDA parsed :
                 IF parsed.scheme # <<>> /\ parsed.netloc # <<>>
                 THEN [valid |-> TRUE, url |-> normalized_url(parsed)]
                 ELSE [valid |-> FALSE, url |-> <<>>],
               Eager(LAMBDA full : urlparse(full), full_url(v.s)))
    ELSE [valid |-> FALSE, url |-> <<>>]

\* the 'url' values the API pages of the model carry
ApiUrlValues ==
    {JMissing, JNum(7), JStr(<<>>), JStr(<<" ">>),
     JStr(<<"h","t","t","p","s",":","/","/","c","o","l","e","m","a","n","f","u","r","n","i","t","u","r","e",".","c","o","m","/","a",".","h","t","m">>),
     JStr(<<" ","/","a",".","h","t","m","/"," ">>),
     JStr(<<"a",".","h","t","m","?","x","=","1","#","f">>),
     JStr(<<"'","/","/","c",".","c","o","/","b","/","/","'">>),
     JStr(<<"m","a","i","l","t","o",":","x">>),
     JStr(<<"\"","\"">>),
     JStr(<<"/","s","/","/","t","/",";","p","?","q">>)}

\* CollectUrl of every value, computed once
Collected == [v \in ApiUrlValues |-> CollectUrl(v)]

AppendNew(page_urls, u) ==
    IF \E i \in 1..Len(page_urls) : page_urls[i] = u THEN page_urls
    ELSE Append(page_urls, u)

RECURSIVE BundleUrls(_, _)
\* lines 113-136: the loop over associatedBundles
BundleUrls(bundles, page_urls) ==
    IF bundles = <<>> THEN page_urls
    ELSE LET bundle == Head(bundles)
         IN  Eager(LAMBDA seen : BundleUrls(Tail(bundles), seen),
                   IF bundle.is_dict /\ Collected[bundle.url].valid
                   THEN AppendNew(page_urls, Collected[bundle.url].url)
                   ELSE page_urls)

RECURSIVE PageUrls(_, _)
\* lines 88-136: the loop over products; page_urls is seen_on_page in order
PageUrls(products, page_urls) ==
    IF products = <<>> THEN page_urls
    ELSE LET product == Head(products)
             own == IF Collected[product.url].valid
                    THEN AppendNew(page_urls, Collected[product.url].url)
                    ELSE page_urls
         IN  Eager(LAMBDA seen : PageUrls(Tail(products), seen),
                   IF product.bundles_is_list THEN BundleUrls(product.bundles, own)
                   ELSE own)

RECURSIVE AddNew(_, _)
\* lines 138-144: the URLs not yet in ashley_urls are added to it and
\* appended to url_list
AddNew(spider, page_urls) ==
    IF page_urls = <<>> THEN spider
    ELSE Eager(LAMBDA next : AddNew(next, Tail(page_urls)),
               IF Head(page_urls) \in spider.ashley_urls THEN spider
               ELSE [ashley_urls |-> spider.ashley_urls \cup {Head(page_urls)},
                     url_list |-> Append(spider.url_list, Head(page_urls))])

\* parse_page: the spider after the response, and the page_urls it found
parse_page(spider, response) ==
    IF response.kind \in {"bad_status", "short_body", "no_content"}
    THEN [spider |-> spider, page_urls |-> <<>>]
    ELSE IF response.kind = "not_json"
            \/ \E i \in 1..Len(response.products) : ~response.products[i].is_dict
    THEN [spider |-> spider, page_urls |-> <<>>]
    ELSE Eager(LAMBDA page_urls :
                 [spider |-> AddNew(spider, page_urls), page_urls |-> page_urls],
               PageUrls(response.products, <<>>))

\* the pages requested and the products of a page, at most
MaxApiPages == 2

MaxPageProducts == 1

Bundle(v) == [is_dict |-> TRUE, url |-> v]

NotDictBundle == [is_dict |-> FALSE, url |-> JMissing]

Product(v, is_list, bundles) ==
    [is_dict |-> TRUE, url |-> v, bundles_is_list |-> is_list, bundles |-> bundles]

NotDictProduct ==
    [is_dict |-> FALSE, url |-> JMissing, bundles_is_list |-> FALSE, bundles |-> <<>>]

ApiProducts ==
    {Product(v, TRUE, <<>>) : v \in ApiUrlValues}
    \cup {Product(JStr(<<"h","t","t","p","s",":","/","/","c","o","l","e","m","a","n","f","u","r","n","i","t","u","r","e",".","c","o","m","/","a",".","h","t","m">>), TRUE,
                  <<Bundle(JStr(<<"/","s","/","/","t","/",";","p","?","q">>)), NotDictBundle,
                    Bundle(JStr(<<" ","/","a",".","h","t","m","/"," ">>))>>),
          Product(JMissing, TRUE, <<Bundle(JStr(<<"'","/","/","c",".","c","o","/","b","/","/","'">>))>>),
          Product(JStr(<<"a",".","h","t","m","?","x","=","1","#","f">>), FALSE, <<>>),
          NotDictProduct}

ApiResponses ==
    {[kind |-> k, products |-> <<>>] :
        k \in {"bad_status", "short_body", "not_json", "no_content"}}
    \cup {[kind |-> "dict", products |-> <<p>>] : p \in ApiProducts}
    \cup {[kind |-> "list", products |-> ps] :
             ps \in UNION {[1..n -> ApiProducts] : n \in 0..MaxPageProducts}}

NoPage ==
    [handled |-> FALSE, response |-> [kind |-> "none", products |-> <<>>],
     before |-> <<>>, page_urls |-> <<>>]

\* AshleyURLSpider.__init__ with the url_list = [] of main()
InitAshleyUrls ==
    /\ ash_spider = [ashley_urls |-> {}, url_list |-> <<>>]
    /\ ash_pages = 0
    /\ ash_last = NoPage
    /\ Parked("ashurls")

\* the response of one of the page requests arrives and parse_page runs
ParsePage(response) ==
    /\ ash_pages < MaxApiPages
    /\ LET r == parse_page(ash_spider, response)
       IN  /\ ash_spider' = r.spider
           /\ ash_last' = [handled |-> TRUE, response |-> response,
                           before |-> ash_spider.url_list,
                           page_urls |-> r.page_urls]
    /\ ash_pages' = ash_pages + 1
    /\ Frame("ashurls")

NextAshleyUrls == \E response \in ApiResponses : ParsePage(response)

SpecAshleyUrls == InitAshleyUrls /\ [][NextAshleyUrls]_vars

\* u reads scheme://host/path: a non-empty scheme, "://", a non-empty host,
\* no "?" or "#" anywhere, and no "/" at the end
WellFormedCollected(u) ==
    \E i \in 2..(Len(u) - 3) :
        /\ u[i] = ":" /\ u[i + 1] = "/" /\ u[i + 2] = "/"
        /\ \A k \in 1..(i - 1) : u[k] \notin {":", "/", "?", "#"}
        /\ u[i + 3] \notin {"/", "?", "#"}
        /\ \A k \in 1..Len(u) : u[k] \notin {"?", "#"}
        /\ u[Len(u)] # "/"

\* the entries of seq that are not in old, each once, in order
RECURSIVE NewIn(_, _)
NewIn(seq, old) ==
    IF seq = <<>> THEN <<>>
    ELSE IF \E i \in 1..Len(old) : old[i] = Head(seq) THEN NewIn(Tail(seq), old)
    ELSE <<Head(seq)>> \o NewIn(Tail(seq), Append(old, Head(seq)))

\* C22: after any sequence of page responses url_list has no duplicates and
\* holds exactly the elements of ashley_urls; every collected URL reads
\* scheme://host/path with no trailing "/", query or fragment; the last page
\* added to url_list only the URLs that no earlier page had collected.
C22_UrlListIsTheSet ==
    LET list == ash_spider.url_list
    IN  /\ \A i, j \in 1..Len(list) : i # j => list[i] # list[j]
        /\ {list[i] : i \in 1..Len(list)} = ash_spider.ashley_urls
        /\ \A u \in ash_spider.ashley_urls : WellFormedCollected(u)
        /\ ash_last.handled => list = ash_last.before \o NewIn(ash_last.page_urls, ash_last.before)

\* the second page lists a.htm again, with a trailing "/" in a bundle, and
\* a bundle that the first page did not have: only the bundle is added
C22_Witness ==
    /\ ash_pages = 2
    /\ ash_last.before = <<<<"h","t","t","p","s",":","/","/","c","o","l","e","m","a","n","f","u","r","n","i","t","u","r","e",".","c","o","m","/","a",".","h","t","m">>>>
    /\ ash_last.page_urls = <<<<"h","t","t","p","s",":","/","/","c","o","l","e","m","a","n","f","u","r","n","i","t","u","r","e",".","c","o","m","/","a",".","h","t","m">>,
                              <<"h","t","t","p","s",":","/","/","c","o","l","e","m","a","n","f","u","r","n","i","t","u","r","e",".","c","o","m","/","s","/","t">>>>
    /\ ash_spider.url_list = <<<<"h","t","t","p","s",":","/","/","c","o","l","e","m","a","n","f","u","r","n","i","t","u","r","e",".","c","o","m","/","a",".","h","t","m">>,
                               <<"h","t","t","p","s",":","/","/","c","o","l","e","m","a","n","f","u","r","n","i","t","u","r","e",".","c","o","m","/","s","/","t">>>>
====
